---- MODULE Spec2Model ----
(***************************************************************************)
(* A model of the streaming chat client of tactus: the request loop of     *)
(* streamChat (src/utils/api.ts), its tool-call aggregator and its error   *)
(* classifier, and the side panel's edit/truncate handling of the API      *)
(* ledger (src/entrypoints/sidepanel/App.vue).                              *)
(*                                                                         *)
(* Text is modelled as a sequence of one-character strings, so that        *)
(* concatenation, the brace counter and JSON parsing are computed and not  *)
(* assumed.                                                                *)
(***************************************************************************)
EXTENDS Integers, Sequences, FiniteSets, TLC

VARIABLES
    \* ---- streamChat (src/utils/api.ts) ----
    pc,                 \* position of the exchange: send, backoff, stream, dispatch, executing, done, failed, off
    maxIterations,      \* config.maxIterations || 5
    hasExecutor,        \* whether config.toolExecutor is supplied
    iteration,          \* let iteration
    attempt,            \* for (let attempt ...)
    lastError,          \* let lastError: ApiError | null
    currentMessages,    \* let currentMessages
    lastApiMessages,    \* module-level lastApiMessages (getLastApiMessages())
    toolCallRetryCount, \* let toolCallRetryCount
    fullContent,        \* let fullContent of the current turn
    toolCalls,          \* flattened tool calls of the current turn
    tcIdx,              \* position of the dispatch loop in toolCalls (1-based)
    thrown,             \* code of the ApiError thrown out of the generator, or NoError
    events,             \* StreamEvents yielded since the current iteration began
    \* ---- observation of the exchange ----
    initialMessages,    \* apiMessages as built at the start of the exchange
    requestCount,       \* model requests issued so far in the exchange
    netFailures,        \* failed request attempts so far in the exchange
    lastSent,           \* message list carried by the most recent request
    discarded,          \* the previous turn ended in DiscardAndRetry
    turnLog,            \* one record per model turn whose stream was read
    failure,            \* the error caught by the most recent attempt or stream read, if any
    timerArmed,         \* the timeout of createTimeoutController is pending
    \* ---- tool-call aggregator fed delta by delta ----
    tcMap,              \* toolCallsByIndex
    fed,                \* deltas fed so far
    orig,               \* the argument string being split (split mode)
    rest,               \* the part of orig not yet delivered
    \* ---- side panel (App.vue) ----
    panelPc,            \* idle, truncated, running, off
    uiMessages,         \* messages.value
    currentSession,     \* currentSession.value: whether it exists, and its apiMessages if defined
    editingMessageIndex,\* editingMessageIndex.value (0-based), or -1 for null
    isLoading,          \* isLoading.value
    editLedger,         \* observation: the API ledger when the last saveEditMessage began
    editK,              \* observation: which user message (0-based) that edit was on
    \* ---- two exchanges side by side, and the tool list of a request ----
    xch,                \* the local state of each of two interleaved exchanges
    wireRequest,        \* the context flags of a request and the tools it carries
    \* ---- script execution (skillsExecutor.ts) ----
    trustedScripts,     \* trustedScriptsStorage: the list of trust records
    confirmCallback,    \* whether setScriptConfirmCallback has installed a callback
    exec,               \* the executeScript call in progress, and what it has done
    \* ---- pure functions applied to drawn inputs ----
    wait,               \* a call of getRetryDelay: its inputs and what it returned
    sse,                \* the SSE decoder: the text still to arrive, its locals, what it yielded
    sends               \* the calls of sendMessage that passed its guard, each with its position

vars == <<pc, maxIterations, hasExecutor, iteration, attempt, lastError,
          currentMessages, lastApiMessages, toolCallRetryCount, fullContent,
          toolCalls, tcIdx, thrown, events, initialMessages, requestCount,
          netFailures, lastSent, discarded, turnLog, tcMap, fed, orig, rest,
          panelPc, uiMessages, currentSession, editingMessageIndex, isLoading,
          editLedger, editK, failure, timerArmed, xch, wireRequest,
          trustedScripts, confirmCallback, exec, wait, sse, sends>>

chatVars == <<pc, maxIterations, hasExecutor, iteration, attempt, lastError,
              currentMessages, toolCallRetryCount, fullContent,
              toolCalls, tcIdx, thrown, events, initialMessages, requestCount,
              netFailures, lastSent, discarded, turnLog, failure, timerArmed>>

aggVars == <<tcMap, fed, orig, rest>>

panelVars == <<panelPc, uiMessages, currentSession, editingMessageIndex, isLoading,
               editLedger, editK>>

scriptVars == <<trustedScripts, confirmCallback, exec>>

pureVars == <<wait, sse, sends>>

sideVars == <<xch, wireRequest, scriptVars, pureVars>>

-----------------------------------------------------------------------------
(* Text helpers *)

\* String.prototype.includes for a single character
Includes(str, ch) == \E i \in 1..Len(str) : str[i] = ch

-----------------------------------------------------------------------------
(* isJsonClosed: the brace counter of api.ts *)

RECURSIVE BraceScan(_, _, _, _)
\* the for loop of isJsonClosed from position i, with braceCount and inString
BraceScan(str, i, braceCount, inString) ==
    IF i > Len(str) THEN braceCount
    ELSE IF str[i] = "\"" /\ (i = 1 \/ str[i - 1] # "\\")
         THEN BraceScan(str, i + 1, braceCount, ~inString)
    ELSE IF ~inString /\ str[i] = "{"
         THEN BraceScan(str, i + 1, braceCount + 1, inString)
    ELSE IF ~inString /\ str[i] = "}"
         THEN BraceScan(str, i + 1, braceCount - 1, inString)
    ELSE BraceScan(str, i + 1, braceCount, inString)

isJsonClosed(str) ==
    IF str = <<>> THEN FALSE
    ELSE BraceScan(str, 1, 0, FALSE) = 0 /\ Includes(str, "{")

-----------------------------------------------------------------------------
(* JSON.parse, as far as success or failure goes, over the characters      *)
(* { } [ ] " \ : , space, the digit 1 and letters.  A position 0 means      *)
(* failure.                                                                *)

RECURSIVE SkipWs(_, _)
SkipWs(s, i) == IF i <= Len(s) /\ s[i] = " " THEN SkipWs(s, i + 1) ELSE i

RECURSIVE StringBody(_, _)
\* i is inside a string literal; the position after its closing quote, or 0
StringBody(s, i) ==
    IF i > Len(s) THEN 0
    ELSE IF s[i] = "\"" THEN i + 1
    ELSE IF s[i] = "\\"
         THEN IF i + 1 <= Len(s) /\ s[i + 1] \in {"\"", "\\"}
              THEN StringBody(s, i + 2) ELSE 0
    ELSE StringBody(s, i + 1)

ParseString(s, i) == IF i <= Len(s) /\ s[i] = "\"" THEN StringBody(s, i + 1) ELSE 0

RECURSIVE Digits(_, _)
Digits(s, i) == IF i <= Len(s) /\ s[i] = "1" THEN Digits(s, i + 1) ELSE i

RECURSIVE ParseValue(_, _)
RECURSIVE ParseMembers(_, _)
RECURSIVE ParseElements(_, _)

\* i is at the first element of an array; the position after the closing bracket, or 0
ParseElements(s, i) ==
    LET v == ParseValue(s, i) IN
    IF v = 0 THEN 0 ELSE
    LET e == SkipWs(s, v) IN
    IF e > Len(s) THEN 0
    ELSE IF s[e] = "," THEN ParseElements(s, SkipWs(s, e + 1))
    ELSE IF s[e] = "]" THEN e + 1
    ELSE 0

\* i is at the first member of an object; the position after the closing brace, or 0
ParseMembers(s, i) ==
    LET k == ParseString(s, i) IN
    IF k = 0 THEN 0 ELSE
    LET c == SkipWs(s, k) IN
    IF c > Len(s) \/ s[c] # ":" THEN 0 ELSE
    LET v == ParseValue(s, SkipWs(s, c + 1)) IN
    IF v = 0 THEN 0 ELSE
    LET e == SkipWs(s, v) IN
    IF e > Len(s) THEN 0
    ELSE IF s[e] = "," THEN ParseMembers(s, SkipWs(s, e + 1))
    ELSE IF s[e] = "}" THEN e + 1
    ELSE 0

ParseValue(s, i) ==
    IF i > Len(s) THEN 0
    ELSE IF s[i] = "{"
         THEN LET j == SkipWs(s, i + 1) IN
              IF j <= Len(s) /\ s[j] = "}" THEN j + 1 ELSE ParseMembers(s, j)
    ELSE IF s[i] = "["
         THEN LET j == SkipWs(s, i + 1) IN
              IF j <= Len(s) /\ s[j] = "]" THEN j + 1 ELSE ParseElements(s, j)
    ELSE IF s[i] = "\"" THEN ParseString(s, i)
    ELSE IF s[i] = "1" THEN Digits(s, i)
    ELSE 0

\* JSON.parse(s) returns (TRUE) or throws (FALSE)
JsonParses(s) ==
    LET e == ParseValue(s, SkipWs(s, 1)) IN
    e # 0 /\ SkipWs(s, e) = Len(s) + 1

-----------------------------------------------------------------------------
(* The tool-call aggregator of streamChat.  toolCallsByIndex is a Map of   *)
(* Maps; both iterate in insertion order, so each is a sequence here.      *)
(* An absent id is "" and an absent name or argument fragment is <<>>,     *)
(* which is what the code's truthiness tests see.                          *)

SlotPos(m, index) ==
    IF \E p \in 1..Len(m) : m[p].index = index
    THEN CHOOSE p \in 1..Len(m) : m[p].index = index
    ELSE 0

IdPos(indexMap, id) ==
    IF \E j \in 1..Len(indexMap) : indexMap[j].id = id
    THEN CHOOSE j \in 1..Len(indexMap) : indexMap[j].id = id
    ELSE 0

\* the guarded append of an argument fragment onto a buffer
AppendArgsNoGuard(buffer, fragment) == buffer \o fragment

AppendArgs(buffer, fragment) ==
    IF fragment # <<>> /\ ~isJsonClosed(buffer) THEN buffer \o fragment ELSE buffer

\* name and arguments of an existing entry updated from a delta
UpdateEntry(entry, tc) ==
    [id |-> entry.id,
     name |-> IF tc.name # <<>> THEN tc.name ELSE entry.name,
     arguments |-> AppendArgs(entry.arguments, tc.arguments)]

\* which entry of the slot a delta goes to: 0 for "a new entry", -1 for "none"
TargetEntryByIndexOnly(indexMap, tc) ==
    IF Len(indexMap) > 0 THEN Len(indexMap)
    ELSE IF tc.id # "" THEN 0 ELSE -1

\* a delta without an id sent to the fragment created first
TargetEntryOldest(indexMap, tc) ==
    IF tc.id # ""
    THEN IdPos(indexMap, tc.id)
    ELSE IF Len(indexMap) > 0 THEN 1 ELSE -1

TargetEntry(indexMap, tc) ==
    IF tc.id # ""
    THEN IdPos(indexMap, tc.id)
    ELSE IF Len(indexMap) > 0 THEN Len(indexMap) ELSE -1

\* the body of `for (const tc of delta.tool_calls)`
ApplyDelta(m, tc) ==
    LET m1 == IF SlotPos(m, tc.index) = 0
              THEN Append(m, [index |-> tc.index, calls |-> <<>>])
              ELSE m
        p == SlotPos(m1, tc.index)
        indexMap == m1[p].calls
        t == TargetEntry(indexMap, tc)
        calls2 == IF t = 0
                  THEN Append(indexMap, [id |-> tc.id, name |-> tc.name,
                                         arguments |-> tc.arguments])
                  ELSE IF t = -1 THEN indexMap
                  ELSE [indexMap EXCEPT ![t] = UpdateEntry(indexMap[t], tc)]
    IN [m1 EXCEPT ![p].calls = calls2]

RECURSIVE ApplyDeltas(_, _)
ApplyDeltas(m, tcs) ==
    IF tcs = <<>> THEN m ELSE ApplyDeltas(ApplyDelta(m, Head(tcs)), Tail(tcs))

\* a test that lets a fragment through on its id alone
ResolvedByIdOnly(tc) == tc.id # ""

Resolved(tc) == tc.id # "" /\ tc.name # <<>>

RECURSIVE KeepResolved(_)
KeepResolved(calls) ==
    IF calls = <<>> THEN <<>>
    ELSE (IF Resolved(Head(calls)) THEN <<Head(calls)>> ELSE <<>>)
         \o KeepResolved(Tail(calls))

RECURSIVE AllFragments(_)
\* every fragment of toolCallsByIndex, in the order the double loop visits them
AllFragments(m) ==
    IF m = <<>> THEN <<>> ELSE Head(m).calls \o AllFragments(Tail(m))

RECURSIVE FlattenToolCalls(_)
\* the double loop that flattens toolCallsByIndex into toolCalls
FlattenToolCalls(m) ==
    IF m = <<>> THEN <<>>
    ELSE KeepResolved(Head(m).calls) \o FlattenToolCalls(Tail(m))

-----------------------------------------------------------------------------
(* Program constants *)

\* DEFAULT_RETRY_CONFIG.maxRetries
MaxRetries == 3

\* const maxToolCallRetries
maxToolCallRetries == 3

\* config?.maxIterations || 5
DefaultMaxIterations == 5

(* Bounds of the model *)

\* the largest maxIterations an exchange is configured with
MaxIterCap == 3

-----------------------------------------------------------------------------
(* parseError: the error classifier.  A failure is described by what the   *)
(* classifier inspects: its class, its HTTP status and which keywords its  *)
(* message holds.                                                          *)

Failure(kind, status, words) == [kind |-> kind, status |-> status, words |-> words]

ApiError(code, retryable) == [code |-> code, retryable |-> retryable]

NoError == ApiError("none", FALSE)

\* the generic tail of parseError: keywords of the lower-cased message
ClassifyByMessage(err) ==
    IF "timeout" \in err.words THEN ApiError("TIMEOUT", TRUE)
    ELSE IF err.words \cap {"network", "econnrefused", "enotfound"} # {}
         THEN ApiError("NETWORK_ERROR", TRUE)
    ELSE ApiError("UNKNOWN", FALSE)

\* a classifier that reads the message before it looks at the status
parseErrorKeywordsFirst(err) ==
    IF err.kind = "AbortError" THEN ApiError("TIMEOUT", TRUE)
    ELSE IF "timeout" \in err.words THEN ApiError("TIMEOUT", TRUE)
    ELSE IF err.kind = "APIError" /\ err.status \in {401, 403}
         THEN ApiError("AUTH_ERROR", FALSE)
    ELSE IF err.kind = "APIError" /\ err.status = 429
         THEN IF err.words \cap {"quota", "billing", "insufficient"} # {}
              THEN ApiError("QUOTA_EXCEEDED", FALSE)
              ELSE ApiError("RATE_LIMIT", TRUE)
    ELSE IF err.kind = "APIError" /\ err.status = 404
         THEN ApiError("MODEL_NOT_FOUND", FALSE)
    ELSE IF err.kind = "APIError" /\ err.status = 400
         THEN ApiError("INVALID_REQUEST", FALSE)
    ELSE IF err.kind = "APIError" /\ err.status >= 500
         THEN ApiError("SERVER_ERROR", TRUE)
    ELSE IF err.kind = "TypeError" /\ err.words \cap {"fetch", "network"} # {}
         THEN ApiError("NETWORK_ERROR", TRUE)
    ELSE ClassifyByMessage(err)

parseError(err) ==
    IF err.kind = "AbortError" THEN ApiError("TIMEOUT", TRUE)
    ELSE IF err.kind = "APIError" /\ err.status \in {401, 403}
         THEN ApiError("AUTH_ERROR", FALSE)
    ELSE IF err.kind = "APIError" /\ err.status = 429
         THEN IF err.words \cap {"quota", "billing", "insufficient"} # {}
              THEN ApiError("QUOTA_EXCEEDED", FALSE)
              ELSE ApiError("RATE_LIMIT", TRUE)
    ELSE IF err.kind = "APIError" /\ err.status = 404
         THEN ApiError("MODEL_NOT_FOUND", FALSE)
    ELSE IF err.kind = "APIError" /\ err.status = 400
         THEN ApiError("INVALID_REQUEST", FALSE)
    ELSE IF err.kind = "APIError" /\ err.status >= 500
         THEN ApiError("SERVER_ERROR", TRUE)
    ELSE IF err.kind = "TypeError" /\ err.words \cap {"fetch", "network"} # {}
         THEN ApiError("NETWORK_ERROR", TRUE)
    ELSE ClassifyByMessage(err)

\* no error was caught
NoFailure == Failure("none", 0, {})

\* the failures a request attempt of the exchange may meet
Http503 == Failure("APIError", 503, {})
Http401 == Failure("APIError", 401, {})
RequestFailures == {Http503, Http401}

\* a connection drop while the stream is read
StreamDrop == Failure("TypeError", 0, {"fetch"})
StreamFailures == {StreamDrop}

-----------------------------------------------------------------------------
(* Messages and events *)

\* content: null
NullContent == <<"<null>">>

ApiMessage(role, content, tool_calls, tool_call_id, name) ==
    [role |-> role, content |-> content, tool_calls |-> tool_calls,
     tool_call_id |-> tool_call_id, name |-> name]

ChatMessage(role, content, quote) == [role |-> role, content |-> content, quote |-> quote]

\* basePrompt + contextPrompt
SystemPrompt == <<"S">>

\* m.quote ? `[Quote: "${m.quote}"]\n\n${m.content}` : m.content
QuotedContent(m) ==
    IF m.quote # <<>> THEN <<"[", "\"">> \o m.quote \o <<"\"", "]">> \o m.content
    ELSE m.content

\* const apiMessages = [system, ...messages.map(...)]
BuildApiMessages(messages) ==
    <<ApiMessage("system", SystemPrompt, <<>>, "", <<>>)>>
    \o [i \in 1..Len(messages) |->
          ApiMessage(messages[i].role, QuotedContent(messages[i]), <<>>, "", <<>>)]

Event(type, code, retrying, attemptNo, id, content) ==
    [type |-> type, code |-> code, retrying |-> retrying, attempt |-> attemptNo,
     id |-> id, content |-> content]

ErrorEvent(e, retrying, attemptNo) == Event("error", e.code, retrying, attemptNo, "", <<>>)
ThinkingEvent == Event("thinking", "", FALSE, 0, "", <<>>)
ContentEvent(text) == Event("content", "", FALSE, 0, "", text)
ToolCallEvent(id) == Event("tool_call", "", FALSE, 0, id, <<>>)
ToolResultEvent(id, success) == Event("tool_result", "", success, 0, id, <<>>)
DoneEvent == Event("done", "", FALSE, 0, "", <<>>)

-----------------------------------------------------------------------------
(* The streams a model turn may answer with *)

Delta(index, id, name, arguments) ==
    [index |-> index, id |-> id, name |-> name, arguments |-> arguments]

Chunk(content, tool_calls) == [content |-> content, tool_calls |-> tool_calls]

NameGet == <<"g", "e", "t">>
NameRun == <<"r", "u", "n">>
ArgsEmptyObject == <<"{", "}">>
ArgsCity == <<"{", "\"", "a", "\"", ":", "1", "}">>
ArgsBroken == <<"{", "\"", "a">>
ArgsOpen == <<"{">>
ArgsClose == <<"}">>

\* plain content, no tool calls
StreamContent == <<Chunk(<<"h">>, <<>>), Chunk(<<"i">>, <<>>)>>
\* one tool call, its arguments {"a":1} split over three deltas
StreamTool ==
    <<Chunk(<<>>, <<Delta(0, "c1", NameGet, <<"{", "\"", "a">>)>>),
      Chunk(<<>>, <<Delta(0, "", <<>>, <<"\"", ":">>)>>),
      Chunk(<<>>, <<Delta(0, "c1", <<>>, <<"1", "}">>)>>)>>
\* one tool call whose arguments are cut short
StreamBadArgs == <<Chunk(<<>>, <<Delta(0, "c1", NameGet, ArgsBroken)>>)>>
\* one tool call for which no argument text arrives
StreamNoArgs == <<Chunk(<<>>, <<Delta(0, "c1", NameGet, <<>>)>>)>>
\* content and two tool calls, both with valid arguments
StreamTwo ==
    <<Chunk(<<"h">>, <<Delta(0, "c1", NameGet, ArgsEmptyObject)>>),
      Chunk(<<>>, <<Delta(1, "c2", NameRun, ArgsCity)>>)>>
\* two tool calls, the second with arguments that do not parse
StreamTwoBad ==
    <<Chunk(<<>>, <<Delta(0, "c1", NameGet, ArgsEmptyObject),
                    Delta(1, "c2", NameRun, ArgsBroken)>>)>>
\* two tool calls, the second of which never gets its name
StreamNameless ==
    <<Chunk(<<>>, <<Delta(0, "c1", NameGet, ArgsEmptyObject),
                    Delta(1, "c3", <<>>, ArgsOpen)>>),
      Chunk(<<>>, <<Delta(1, "", <<>>, ArgsClose)>>)>>
\* nothing at all
StreamEmpty == <<>>

Streams == {StreamContent, StreamTool, StreamBadArgs, StreamNoArgs, StreamTwo,
            StreamTwoBad, StreamEmpty}

\* the caller's messages at the start of an exchange
UserAsk == ChatMessage("user", <<"q">>, <<>>)
UserQuoted == ChatMessage("user", <<"w">>, <<"x">>)
PriorAnswer == ChatMessage("assistant", <<"p">>, <<>>)
InitialHistories == {<<UserAsk>>, <<UserAsk, PriorAnswer, UserQuoted>>}

-----------------------------------------------------------------------------
(* Reading one stream: the for-await loop *)

\* state of the read: content so far, toolCallsByIndex, content events yielded
ReadState(content, map, evs) == [content |-> content, map |-> map, evs |-> evs]

\* a loop body that puts each content delta in front of what it has
ReadChunkPrepends(st, chunk) ==
    ReadState(chunk.content \o st.content,
              ApplyDeltas(st.map, chunk.tool_calls),
              IF chunk.content # <<>>
              THEN Append(st.evs, ContentEvent(chunk.content)) ELSE st.evs)

\* the body of `for await (const chunk of stream)`
ReadChunk(st, chunk) ==
    ReadState(st.content \o chunk.content,
              ApplyDeltas(st.map, chunk.tool_calls),
              IF chunk.content # <<>>
              THEN Append(st.evs, ContentEvent(chunk.content)) ELSE st.evs)

RECURSIVE ReadChunks(_, _)
ReadChunks(st, chunks) ==
    IF chunks = <<>> THEN st ELSE ReadChunks(ReadChunk(st, Head(chunks)), Tail(chunks))

\* the arguments the loop controller tries to parse: `if (tc.arguments) JSON.parse(...)`
ArgsRejected(arguments) == arguments # <<>> /\ ~JsonParses(arguments)

\* a validation loop that looks at the first tool call only
HasParseErrorFirstOnly(calls) == Len(calls) > 0 /\ ArgsRejected(calls[1].arguments)

\* hasParseError after the validation loop
HasParseError(calls) == \E i \in 1..Len(calls) : ArgsRejected(calls[i].arguments)

\* const assistantToolCalls = toolCalls.map(...), pushed with content fullContent || null
AssistantToolCallMessage(content, calls) ==
    ApiMessage("assistant", IF content # <<>> THEN content ELSE NullContent, calls, "", <<>>)

\* a tool-result message that names the tool and not the call
ToolMessageNoId(tc, result) == ApiMessage("tool", result, <<>>, "", tc.name)

\* the tool-result message pushed after a successful tool execution
ToolMessage(tc, result) == ApiMessage("tool", result, <<>>, tc.id, tc.name)

\* result.result of a tool execution
ToolResultText == <<"r">>

\* a final ledger that leaves the last assistant message out
FinalLedgerNoAssistant(msgs, content) == msgs

\* lastApiMessages at the break of a turn without tool calls
FinalLedger(msgs, content) ==
    IF content # <<>>
    THEN Append(msgs, ApiMessage("assistant", content, <<>>, "", <<>>))
    ELSE msgs

\* the catch block's two tests: non-retryable, or attempt >= retryConfig.maxRetries
StopRetryingOneEarly(e, attemptNo) == ~e.retryable \/ attemptNo >= MaxRetries - 1

StopRetryingIgnoreClass(e, attemptNo) == attemptNo >= MaxRetries

\* a catch block that never retries
StopRetryingAlways(e, attemptNo) == TRUE

StopRetrying(e, attemptNo) == ~e.retryable \/ attemptNo >= MaxRetries

\* a budget test that lets one more fault through
ToolBudgetExhaustedLate(count) == count > maxToolCallRetries

\* toolCallRetryCount >= maxToolCallRetries, after the increment
ToolBudgetExhausted(count) == count >= maxToolCallRetries

\* a discard that takes the last two messages off the list
PopDiscardTwo(msgs) == SubSeq(msgs, 1, Len(msgs) - 2)

\* currentMessages.pop() of the execution-error path
PopDiscard(msgs) == SubSeq(msgs, 1, Len(msgs) - 1)

-----------------------------------------------------------------------------
(* streamChat: one exchange *)

\* the state after the setup of streamChat, before the first request
StartExchange(messages, maxIter, executor) ==
    /\ pc = "send"
    /\ maxIterations = maxIter
    /\ hasExecutor = executor
    /\ iteration = 1
    /\ attempt = 0
    /\ lastError = NoError
    /\ currentMessages = BuildApiMessages(messages)
    /\ lastApiMessages = BuildApiMessages(messages)
    /\ toolCallRetryCount = 0
    /\ fullContent = <<>>
    /\ toolCalls = <<>>
    /\ tcIdx = 0
    /\ thrown = "none"
    /\ events = <<>>
    /\ initialMessages = BuildApiMessages(messages)
    /\ requestCount = 0
    /\ netFailures = 0
    /\ lastSent = <<>>
    /\ discarded = FALSE
    /\ turnLog = <<>>
    /\ failure = NoFailure
    /\ timerArmed = TRUE

\* currentSession.value === null
NoSession == [exists |-> FALSE, hasApiMessages |-> FALSE, apiMessages |-> <<>>]

\* no script has been asked for, no callback installed, nothing trusted
ScriptOff ==
    /\ trustedScripts = <<>>
    /\ confirmCallback = FALSE
    /\ exec = [pc |-> "off"]

\* no pure function is under test
PureOff == wait = <<>> /\ sse = <<>> /\ sends = <<>>

\* no pair of exchanges is running and no request has been assembled
SideOff == xch = <<>> /\ wireRequest = <<>> /\ ScriptOff /\ PureOff

AggIdle == tcMap = <<>> /\ fed = <<>> /\ orig = <<>> /\ rest = <<>>

PanelOff ==
    /\ panelPc = "off"
    /\ uiMessages = <<>>
    /\ currentSession = NoSession
    /\ editingMessageIndex = -1
    /\ isLoading = FALSE
    /\ editLedger = <<>>
    /\ editK = -1

Init ==
    /\ \E messages \in InitialHistories, maxIter \in 1..MaxIterCap, executor \in BOOLEAN :
          StartExchange(messages, maxIter, executor)
    /\ AggIdle
    /\ PanelOff
    /\ SideOff

\* a loop test that lets one turn too many through
ContinueLoopOnePast(evs, wasDiscarded) ==
    /\ discarded' = wasDiscarded
    /\ IF iteration <= maxIterations
       THEN /\ iteration' = iteration + 1
            /\ attempt' = 0
            /\ lastError' = NoError
            /\ fullContent' = <<>>
            /\ toolCalls' = <<>>
            /\ tcIdx' = 0
            /\ events' = <<>>
            /\ timerArmed' = TRUE
            /\ pc' = "send"
       ELSE /\ events' = Append(evs, DoneEvent)
            /\ pc' = "done"
            /\ UNCHANGED <<iteration, attempt, lastError, fullContent, toolCalls, tcIdx,
                           timerArmed>>

\* `continue`: back to `while (iteration < maxIterations)`, and `yield done` after the loop
\* a loop whose next turn goes on from the attempt number of the last one
ContinueLoopKeepsAttempt(evs, wasDiscarded) ==
    /\ discarded' = wasDiscarded
    /\ IF iteration < maxIterations
       THEN /\ iteration' = iteration + 1
            /\ attempt' = attempt
            /\ lastError' = NoError
            /\ fullContent' = <<>>
            /\ toolCalls' = <<>>
            /\ tcIdx' = 0
            /\ events' = <<>>
            /\ timerArmed' = TRUE
            /\ pc' = "send"
       ELSE /\ events' = Append(evs, DoneEvent)
            /\ pc' = "done"
            /\ UNCHANGED <<iteration, attempt, lastError, fullContent, toolCalls, tcIdx,
                           timerArmed>>

ContinueLoop(evs, wasDiscarded) ==
    /\ discarded' = wasDiscarded
    /\ IF iteration < maxIterations
       THEN /\ iteration' = iteration + 1
            /\ attempt' = 0
            /\ lastError' = NoError
            /\ fullContent' = <<>>
            /\ toolCalls' = <<>>
            /\ tcIdx' = 0
            /\ events' = <<>>
            /\ timerArmed' = TRUE
            /\ pc' = "send"
       ELSE /\ events' = Append(evs, DoneEvent)
            /\ pc' = "done"
            /\ UNCHANGED <<iteration, attempt, lastError, fullContent, toolCalls, tcIdx,
                           timerArmed>>

\* a fatal error: the error event with retrying = false, then the throw
Fail(evs, e, attemptNo) ==
    /\ events' = Append(evs, ErrorEvent(e, FALSE, attemptNo))
    /\ thrown' = e.code
    /\ pc' = "failed"

\* one attempt of client.chat.completions.create that succeeds
RequestOk ==
    /\ pc = "send"
    /\ requestCount' = requestCount + 1
    /\ lastSent' = currentMessages
    /\ lastError' = NoError
    /\ failure' = NoFailure
    /\ timerArmed' = FALSE
    /\ pc' = "stream"
    /\ UNCHANGED <<maxIterations, hasExecutor, iteration, attempt, currentMessages,
                   lastApiMessages, toolCallRetryCount, fullContent, toolCalls, tcIdx,
                   thrown, events, initialMessages, netFailures, discarded, turnLog>>
    /\ UNCHANGED <<aggVars, panelVars, sideVars>>

\* a retry notice that counts attempts from one, as its thinking text does
RetryNoticeOneBased(e, attemptNo) == <<ErrorEvent(e, TRUE, attemptNo + 1), ThinkingEvent>>

\* the two events yielded before the backoff sleep
RetryNotice(e, attemptNo) == <<ErrorEvent(e, TRUE, attemptNo), ThinkingEvent>>

\* one attempt that fails: the catch block
RequestFails(err) ==
    /\ pc = "send"
    /\ requestCount' = requestCount + 1
    /\ netFailures' = netFailures + 1
    /\ lastSent' = currentMessages
    /\ lastError' = parseError(err)
    /\ failure' = err
    /\ timerArmed' = FALSE
    /\ IF StopRetrying(parseError(err), attempt)
       THEN Fail(events, parseError(err), attempt)
       ELSE /\ events' = events \o RetryNotice(parseError(err), attempt)
            /\ pc' = "backoff"
            /\ UNCHANGED thrown
    /\ UNCHANGED <<maxIterations, hasExecutor, iteration, attempt, currentMessages,
                   lastApiMessages, toolCallRetryCount, fullContent, toolCalls, tcIdx,
                   initialMessages, discarded, turnLog>>
    /\ UNCHANGED <<aggVars, panelVars, sideVars>>

\* await delay(retryDelay) returns and the for loop goes to its next attempt
Backoff ==
    /\ pc = "backoff"
    /\ attempt' = attempt + 1
    /\ timerArmed' = TRUE
    /\ pc' = "send"
    /\ UNCHANGED <<maxIterations, hasExecutor, iteration, lastError, currentMessages,
                   lastApiMessages, toolCallRetryCount, fullContent, toolCalls, tcIdx,
                   thrown, events, initialMessages, requestCount, netFailures, lastSent,
                   discarded, turnLog, failure>>
    /\ UNCHANGED <<aggVars, panelVars, sideVars>>

TurnRecord(calls, content, failed) ==
    [calls |-> calls, content |-> content, failed |-> failed, invoked |-> 0,
     results |-> <<>>, fragments |-> <<>>, emitted |-> <<>>, wire |-> <<>>,
     partial |-> <<>>]

\* the texts of the content events among `evs`, in order
EmittedContent(evs) ==
    LET IsContent(e) == e.type = "content"
        contentEvents == SelectSeq(evs, IsContent)
    IN [i \in 1..Len(contentEvents) |-> contentEvents[i].content]

\* the content deltas of the chunks received, in order
WireContent(chunks) ==
    LET HasContent(chunk) == chunk.content # <<>>
        withContent == SelectSeq(chunks, HasContent)
    IN [i \in 1..Len(withContent) |-> withContent[i].content]

\* a turn's record with what its stream delivered and what was yielded from it
Observed(record, evs, chunks) ==
    [record EXCEPT !.emitted = EmittedContent(evs), !.wire = WireContent(chunks)]

\* a catch that saves the content received before the stream broke
StreamFailsKeepsPartial(stream, readCount, err) ==
    /\ pc = "stream"
    /\ LET st == ReadChunks(ReadState(<<>>, <<>>, events), SubSeq(stream, 1, readCount)) IN
       /\ fullContent' = st.content
       /\ turnLog' = Append(turnLog, [Observed(TurnRecord(<<>>, st.content, TRUE), st.evs,
                                               SubSeq(stream, 1, readCount))
                                         EXCEPT !.partial = AllFragments(st.map)])
       /\ Fail(st.evs, parseError(err), MaxRetries)
    /\ failure' = err
    /\ lastApiMessages' = FinalLedger(currentMessages, fullContent')
    /\ UNCHANGED <<maxIterations, hasExecutor, iteration, attempt, lastError,
                   currentMessages, toolCallRetryCount, toolCalls, tcIdx,
                   initialMessages, requestCount, netFailures, lastSent, discarded,
                   timerArmed>>
    /\ UNCHANGED <<aggVars, panelVars, sideVars>>

\* the stream breaks after `readCount` chunks: the catch around the for-await loop
StreamFails(stream, readCount, err) ==
    /\ pc = "stream"
    /\ LET st == ReadChunks(ReadState(<<>>, <<>>, events), SubSeq(stream, 1, readCount)) IN
       /\ fullContent' = st.content
       /\ turnLog' = Append(turnLog, [Observed(TurnRecord(<<>>, st.content, TRUE), st.evs,
                                               SubSeq(stream, 1, readCount))
                                         EXCEPT !.partial = AllFragments(st.map)])
       /\ Fail(st.evs, parseError(err), MaxRetries)
    /\ failure' = err
    /\ UNCHANGED <<maxIterations, hasExecutor, iteration, attempt, lastError,
                   currentMessages, lastApiMessages, toolCallRetryCount, toolCalls, tcIdx,
                   initialMessages, requestCount, netFailures, lastSent, discarded,
                   timerArmed>>
    /\ UNCHANGED <<aggVars, panelVars, sideVars>>

\* the stream is read to its end, the tool calls are flattened and validated
ReadStream(stream) ==
    /\ pc = "stream"
    /\ LET st == ReadChunks(ReadState(<<>>, <<>>, events), stream)
           calls == FlattenToolCalls(st.map)
       IN
       /\ fullContent' = st.content
       /\ turnLog' = Append(turnLog, [Observed(TurnRecord(calls, st.content, FALSE),
                                                  st.evs, stream)
                                         EXCEPT !.fragments = AllFragments(st.map)])
       /\ IF Len(calls) > 0 /\ hasExecutor
          THEN IF HasParseError(calls)
               THEN /\ toolCallRetryCount' = toolCallRetryCount + 1
                    /\ IF ToolBudgetExhausted(toolCallRetryCount + 1)
                       THEN /\ Fail(st.evs, ApiError("TOOL_PARSE_ERROR", FALSE),
                                    toolCallRetryCount + 1)
                            /\ toolCalls' = calls
                            /\ UNCHANGED <<iteration, attempt, lastError, tcIdx, discarded,
                                           timerArmed>>
                       ELSE /\ ContinueLoop(Append(st.evs, ThinkingEvent), TRUE)
                            /\ UNCHANGED thrown
                    /\ UNCHANGED <<currentMessages, lastApiMessages>>
               ELSE /\ currentMessages' =
                          Append(currentMessages, AssistantToolCallMessage(st.content, calls))
                    /\ lastApiMessages' =
                          Append(currentMessages, AssistantToolCallMessage(st.content, calls))
                    /\ toolCalls' = calls
                    /\ tcIdx' = 1
                    /\ events' = st.evs
                    /\ pc' = "dispatch"
                    /\ UNCHANGED <<iteration, attempt, lastError, toolCallRetryCount,
                                   thrown, discarded, timerArmed>>
          ELSE /\ lastApiMessages' = FinalLedger(currentMessages, st.content)
               /\ toolCalls' = calls
               /\ events' = Append(st.evs, DoneEvent)
               /\ pc' = "done"
               /\ UNCHANGED <<iteration, attempt, lastError, currentMessages,
                              toolCallRetryCount, tcIdx, thrown, discarded, timerArmed>>
    /\ UNCHANGED <<maxIterations, hasExecutor, initialMessages, requestCount,
                   netFailures, lastSent, failure>>
    /\ UNCHANGED <<aggVars, panelVars, sideVars>>

\* a dispatch loop that announces the tool calls in reverse order
InvokeExecutorReversed ==
    /\ pc = "dispatch"
    /\ events' = events \o <<ToolCallEvent(toolCalls[Len(toolCalls) - tcIdx + 1].id),
                              ThinkingEvent>>
    /\ turnLog' = [turnLog EXCEPT ![Len(turnLog)].invoked = @ + 1]
    /\ pc' = "executing"
    /\ UNCHANGED <<maxIterations, hasExecutor, iteration, attempt, lastError,
                   currentMessages, lastApiMessages, toolCallRetryCount, fullContent,
                   toolCalls, tcIdx, thrown, initialMessages, requestCount, netFailures,
                   lastSent, discarded, failure, timerArmed>>
    /\ UNCHANGED <<aggVars, panelVars, sideVars>>

\* the head of one pass of `for (const tc of toolCalls)`: the arguments are parsed,
\* tool_call and thinking are yielded and `await toolExecutor(toolCall)` begins
InvokeExecutor ==
    /\ pc = "dispatch"
    /\ events' = events \o <<ToolCallEvent(toolCalls[tcIdx].id), ThinkingEvent>>
    /\ turnLog' = [turnLog EXCEPT ![Len(turnLog)].invoked = @ + 1]
    /\ pc' = "executing"
    /\ UNCHANGED <<maxIterations, hasExecutor, iteration, attempt, lastError,
                   currentMessages, lastApiMessages, toolCallRetryCount, fullContent,
                   toolCalls, tcIdx, thrown, initialMessages, requestCount, netFailures,
                   lastSent, discarded, failure, timerArmed>>
    /\ UNCHANGED <<aggVars, panelVars, sideVars>>

\* a dispatch loop that goes on to the next tool call after a failed one
DispatchGoesOn(success) ==
    /\ pc = "executing"
    /\ LET tc == toolCalls[tcIdx]
           evs == Append(events, ToolResultEvent(tc.id, success))
       IN
       /\ turnLog' = [turnLog EXCEPT ![Len(turnLog)].results = Append(@, success)]
       /\ toolCallRetryCount' = toolCallRetryCount
       /\ IF success
          THEN /\ currentMessages' = Append(currentMessages, ToolMessage(tc, ToolResultText))
               /\ lastApiMessages' = Append(currentMessages, ToolMessage(tc, ToolResultText))
          ELSE UNCHANGED <<currentMessages, lastApiMessages>>
       /\ IF tcIdx < Len(toolCalls)
          THEN /\ tcIdx' = tcIdx + 1
               /\ events' = evs
               /\ pc' = "dispatch"
               /\ UNCHANGED <<iteration, attempt, lastError, fullContent,
                              toolCalls, discarded, timerArmed>>
          ELSE ContinueLoop(evs, FALSE)
       /\ UNCHANGED thrown
    /\ UNCHANGED <<maxIterations, hasExecutor, initialMessages, requestCount,
                   netFailures, lastSent, failure>>
    /\ UNCHANGED <<aggVars, panelVars, sideVars>>

\* the rest of the pass: the executor returns a result, with success or not
Dispatch(success) ==
    /\ pc = "executing"
    /\ LET tc == toolCalls[tcIdx]
           evs == Append(events, ToolResultEvent(tc.id, success))
       IN
       /\ turnLog' = [turnLog EXCEPT ![Len(turnLog)].results = Append(@, success)]
       /\ IF ~success
          THEN /\ toolCallRetryCount' = toolCallRetryCount + 1
               /\ IF ToolBudgetExhausted(toolCallRetryCount + 1)
                  THEN /\ Fail(evs, ApiError("TOOL_EXECUTION_ERROR", FALSE),
                               toolCallRetryCount + 1)
                       /\ UNCHANGED <<iteration, attempt, lastError, fullContent, toolCalls,
                                      tcIdx, discarded, currentMessages, timerArmed>>
                  ELSE /\ currentMessages' = PopDiscard(currentMessages)
                       /\ ContinueLoop(Append(evs, ThinkingEvent), TRUE)
                       /\ UNCHANGED thrown
               /\ UNCHANGED lastApiMessages
          ELSE /\ currentMessages' = Append(currentMessages, ToolMessage(tc, ToolResultText))
               /\ lastApiMessages' = Append(currentMessages, ToolMessage(tc, ToolResultText))
               /\ IF tcIdx < Len(toolCalls)
                  THEN /\ tcIdx' = tcIdx + 1
                       /\ events' = evs
                       /\ pc' = "dispatch"
                       /\ UNCHANGED <<iteration, attempt, lastError, fullContent,
                                      toolCalls, discarded, timerArmed>>
                  ELSE ContinueLoop(evs, FALSE)
               /\ UNCHANGED <<toolCallRetryCount, thrown>>
    /\ UNCHANGED <<maxIterations, hasExecutor, initialMessages, requestCount,
                   netFailures, lastSent, failure>>
    /\ UNCHANGED <<aggVars, panelVars, sideVars>>

\* the executor's promise rejects: nothing catches it, and the exception leaves
\* the generator as it is
ExecutorThrows ==
    /\ pc = "executing"
    /\ thrown' = "exception"
    /\ pc' = "failed"
    /\ UNCHANGED <<maxIterations, hasExecutor, iteration, attempt, lastError,
                   currentMessages, lastApiMessages, toolCallRetryCount, fullContent,
                   toolCalls, tcIdx, events, initialMessages, requestCount, netFailures,
                   lastSent, discarded, turnLog, failure, timerArmed>>
    /\ UNCHANGED <<aggVars, panelVars, sideVars>>

Next ==
    \/ RequestOk
    \/ \E err \in RequestFailures : RequestFails(err)
    \/ Backoff
    \/ \E stream \in Streams : ReadStream(stream)
    \/ \E stream \in Streams, err \in StreamFailures :
          \E readCount \in 0..Len(stream) : StreamFails(stream, readCount, err)
    \/ InvokeExecutor
    \/ \E success \in BOOLEAN : Dispatch(success)
    \/ ExecutorThrows

Spec == Init /\ [][Next]_vars

-----------------------------------------------------------------------------
(* Properties of the exchange *)

LastEvent == IF events = <<>> THEN ThinkingEvent ELSE events[Len(events)]

\* some tool call of the turn has an argument string on which JSON.parse throws
TurnHasUnparsable(t) == \E i \in 1..Len(t.calls) : ~JsonParses(t.calls[i].arguments)

\* the same, for argument strings that are not empty
TurnHasUnparsableNonEmpty(t) ==
    \E i \in 1..Len(t.calls) :
        t.calls[i].arguments # <<>> /\ ~JsonParses(t.calls[i].arguments)

\* The original statement of C1: in a turn in which some tool call's argument
\* string fails JSON parsing, the executor is invoked for no tool call.
C1_Original ==
    \A n \in 1..Len(turnLog) : TurnHasUnparsable(turnLog[n]) => turnLog[n].invoked = 0

\* C1 (amended): in a turn in which some tool call has a non-empty argument
\* string that fails JSON parsing, the tool executor is invoked for no tool call
\* of that turn, not even for calls of the turn whose arguments are valid.
C1_NoExecutionOnParseError ==
    \A n \in 1..Len(turnLog) :
        TurnHasUnparsableNonEmpty(turnLog[n]) => turnLog[n].invoked = 0

\* a turn with a valid first call and an unparsable second call was read, nothing
\* of it was executed, and the exchange went on to its next request
C1_Witness ==
    /\ Len(turnLog) >= 1
    /\ Len(turnLog[1].calls) = 2
    /\ JsonParses(turnLog[1].calls[1].arguments)
    /\ TurnHasUnparsableNonEmpty(turnLog[1])
    /\ turnLog[1].invoked = 0
    /\ pc = "stream"

\* C2 as stated: after a DiscardAndRetry (parse error, or a failed tool at any
\* position) the list sent in the next request is the list that was sent in the
\* request that produced the discarded turn.
C2_DiscardRestoresRequest ==
    (pc = "send" /\ discarded) => currentMessages = lastSent

\* the failed attempt classified non-retryable, if the last attempt was one
NonRetryableFailure == lastError # NoError /\ ~lastError.retryable

\* C3: a further attempt follows a failed attempt only if the failure was
\* classified retryable; after a non-retryable failure the exchange has failed
\* with that error and no request is issued any more.
C3_RetryOnlyRetryable ==
    /\ []((pc = "backoff" \/ (pc = "send" /\ attempt > 0)) => lastError.retryable)
    /\ [](NonRetryableFailure => (pc = "failed" /\ thrown = lastError.code))
    /\ [][NonRetryableFailure => requestCount' = requestCount]_vars

\* a non-retryable failure met while attempts remained ended the exchange
C3_Witness ==
    /\ NonRetryableFailure
    /\ attempt < MaxRetries
    /\ pc = "failed"
    /\ requestCount > 1

\* the attempts of the current send that failed with the given code
FailedAttempts(code) ==
    {events[i].attempt : i \in {j \in 1..Len(events) :
                                  events[j].type = "error" /\ events[j].code = code}}

\* The original statement of C4: with maxRetries = 3, once the first three
\* attempts of a send have failed with HTTP 503 the exchange has failed with
\* SERVER_ERROR and no 4th request is issued.
C4_Original ==
    ({0, 1, 2} \subseteq FailedAttempts("SERVER_ERROR"))
        => (pc = "failed" /\ thrown = "SERVER_ERROR" /\ attempt = 2)

\* C4 (amended): with maxRetries = 3 a send makes up to 4 attempts.  After
\* three 503 failures the exchange has not failed with SERVER_ERROR unless the
\* 4th attempt failed with 503 too; after four it has failed with SERVER_ERROR;
\* and there is never a 5th attempt.
C4_FourAttempts ==
    /\ attempt <= MaxRetries
    /\ ({0, 1, 2, 3} \subseteq FailedAttempts("SERVER_ERROR"))
          => (pc = "failed" /\ thrown = "SERVER_ERROR" /\ attempt = MaxRetries)
    /\ ({0, 1, 2} \subseteq FailedAttempts("SERVER_ERROR")
           /\ pc = "failed" /\ thrown = "SERVER_ERROR")
          => 3 \in FailedAttempts("SERVER_ERROR")

\* three 503 failures, then the 4th request was issued and succeeded
C4_Witness ==
    /\ FailedAttempts("SERVER_ERROR") = {0, 1, 2}
    /\ attempt = 3
    /\ pc = "stream"

\* the exchange has ended and each of its model turns yielded a tool call whose
\* arguments fail to parse
EveryTurnUnparsable ==
    /\ pc \in {"done", "failed"}
    /\ turnLog # <<>>
    /\ \A n \in 1..Len(turnLog) : TurnHasUnparsable(turnLog[n])

\* The original statement of C9: such an exchange ends with a fatal
\* TOOL_PARSE_ERROR after at most 3 discard cycles and never with done.
C9_Original ==
    EveryTurnUnparsable
        => /\ pc = "failed"
           /\ thrown = "TOOL_PARSE_ERROR"
           /\ LastEvent = ErrorEvent(ApiError("TOOL_PARSE_ERROR", FALSE), FALSE,
                                     toolCallRetryCount)
           /\ toolCallRetryCount <= maxToolCallRetries

\* a request or the reading of a stream failed fatally
TransportFailed == pc = "failed" /\ thrown \notin {"TOOL_PARSE_ERROR", "TOOL_EXECUTION_ERROR"}

\* C9 (amended): with a tool executor supplied, maxIterations >= 3 and no fatal
\* request or stream failure, an exchange whose every model turn yields a tool
\* call with a non-empty argument string that fails to parse ends with a fatal
\* TOOL_PARSE_ERROR (error event with retrying = false, then the throw) at its
\* 3rd turn, and never with done.
C9_ParseErrorsEndFatally ==
    ( /\ pc \in {"done", "failed"}
      /\ turnLog # <<>>
      /\ \A n \in 1..Len(turnLog) : TurnHasUnparsableNonEmpty(turnLog[n])
      /\ hasExecutor
      /\ maxIterations >= maxToolCallRetries
      /\ ~TransportFailed )
        => /\ pc = "failed"
           /\ thrown = "TOOL_PARSE_ERROR"
           /\ LastEvent = ErrorEvent(ApiError("TOOL_PARSE_ERROR", FALSE), FALSE,
                                     maxToolCallRetries)
           /\ toolCallRetryCount = maxToolCallRetries
           /\ Len(turnLog) = maxToolCallRetries

\* three turns, each with unparsable arguments, ended the exchange fatally
C9_Witness ==
    /\ pc = "failed"
    /\ thrown = "TOOL_PARSE_ERROR"
    /\ Len(turnLog) = 3
    /\ \A n \in 1..Len(turnLog) : TurnHasUnparsableNonEmpty(turnLog[n])

\* first turn: exactly one tool call with valid arguments that the executor runs
\* with success; second turn: plain content and no tool calls
ScenarioC ==
    /\ Len(turnLog) >= 2
    /\ Len(turnLog[1].calls) = 1
    /\ JsonParses(turnLog[1].calls[1].arguments)
    /\ turnLog[1].results = <<TRUE>>
    /\ ~turnLog[2].failed
    /\ turnLog[2].calls = <<>>
    /\ turnLog[2].content # <<>>

\* The original statement of C10: scenario C issues exactly 2 model requests,
\* ends with done, and the ledger has gained 4 messages.
C10_Original ==
    ScenarioC
        => /\ pc = "done"
           /\ LastEvent = DoneEvent
           /\ requestCount = 2
           /\ Len(lastApiMessages) = Len(initialMessages) + 4

\* C10 (amended): in scenario C, when no request attempt fails, the exchange
\* issues exactly 2 model requests, ends with done, and the ledger has gained 3
\* messages: the assistant message with the tool call, the tool result and the
\* final assistant message.
C10_ScenarioC ==
    (ScenarioC /\ netFailures = 0)
        => /\ pc = "done"
           /\ thrown = "none"
           /\ LastEvent = DoneEvent
           /\ requestCount = 2
           /\ lastApiMessages = initialMessages \o
                <<AssistantToolCallMessage(turnLog[1].content, turnLog[1].calls),
                  ToolMessage(turnLog[1].calls[1], ToolResultText),
                  ApiMessage("assistant", turnLog[2].content, <<>>, "", <<>>)>>

C10_Witness == ScenarioC /\ netFailures = 0 /\ pc = "done"

-----------------------------------------------------------------------------
(* The aggregator on its own: one stream's tool-call deltas, fed one by one *)

\* no exchange is running
ChatOff ==
    /\ pc = "off"
    /\ maxIterations = DefaultMaxIterations
    /\ hasExecutor = FALSE
    /\ iteration = 0
    /\ attempt = 0
    /\ lastError = NoError
    /\ currentMessages = <<>>
    /\ lastApiMessages = <<>>
    /\ toolCallRetryCount = 0
    /\ fullContent = <<>>
    /\ toolCalls = <<>>
    /\ tcIdx = 0
    /\ thrown = "none"
    /\ events = <<>>
    /\ initialMessages = <<>>
    /\ requestCount = 0
    /\ netFailures = 0
    /\ lastSent = <<>>
    /\ discarded = FALSE
    /\ turnLog = <<>>
    /\ failure = NoFailure
    /\ timerArmed = FALSE

\* the most deltas fed in one stream
MaxDeltas == 3


\* the deltas a backend may send: either slot, with or without an id, with or
\* without a name, with no argument text, an open fragment or a closed object
AggDeltas ==
    {Delta(index, id, name, arguments) :
        index \in {0, 1}, id \in {"", "c1", "c2"}, name \in {<<>>, NameGet},
        arguments \in {<<>>, ArgsOpen, ArgsEmptyObject}}

InitAgg == ChatOff /\ AggIdle /\ PanelOff /\ SideOff

\* one tool-call delta goes through the aggregator
Feed(tc) ==
    /\ Len(fed) < MaxDeltas
    /\ tcMap' = ApplyDelta(tcMap, tc)
    /\ fed' = Append(fed, tc)
    /\ UNCHANGED <<orig, rest, lastApiMessages>>
    /\ UNCHANGED <<chatVars, panelVars, sideVars>>

NextAgg == \E tc \in AggDeltas : Feed(tc)

SpecAgg == InitAgg /\ [][NextAgg]_vars

(* A complete JSON argument string delivered in chunks *)

ArgsNested == <<"{", "\"", "a", "\"", ":", "{", "}", "}">>
ArgsBraceInString == <<"{", "\"", "a", "\"", ":", "\"", "}", "\"", "}">>
ArgsEscapedQuote == <<"{", "\"", "a", "\"", ":", "\"", "\\", "\"", "\"", "}">>
ArgsBackslashKey == <<"{", "\"", "\\", "\\", "\"", ":", "\"", "}", "\"", "}">>

\* the argument strings that are split: those on which JSON.parse succeeds
CompleteArgStrings ==
    {s \in {ArgsEmptyObject, ArgsCity, ArgsNested, ArgsBraceInString, ArgsEscapedQuote,
            ArgsBackslashKey, ArgsBroken} : JsonParses(s)}

InitSplit ==
    /\ ChatOff
    /\ PanelOff
    /\ SideOff
    /\ tcMap = <<>>
    /\ fed = <<>>
    /\ orig \in CompleteArgStrings
    /\ rest = orig

\* the next n characters arrive as one delta; the first delta carries the id and
\* the name, a later one carries the id or not
FeedChunk(n, withId) ==
    /\ rest # <<>>
    /\ n <= Len(rest)
    /\ fed = <<>> => withId
    /\ LET tc == Delta(0, IF withId THEN "c1" ELSE "",
                       IF fed = <<>> THEN NameGet ELSE <<>>, SubSeq(rest, 1, n))
       IN /\ tcMap' = ApplyDelta(tcMap, tc)
          /\ fed' = Append(fed, tc)
    /\ rest' = SubSeq(rest, n + 1, Len(rest))
    /\ UNCHANGED <<orig, lastApiMessages>>
    /\ UNCHANGED <<chatVars, panelVars, sideVars>>

NextSplit == \E n \in 1..Len(rest), withId \in BOOLEAN : FeedChunk(n, withId)

SpecSplit == InitSplit /\ [][NextSplit]_vars

ResolvedCall(id, name, arguments) == [id |-> id, name |-> name, arguments |-> arguments]

\* C5 as stated: however a complete JSON argument string is split into non-empty
\* chunks (the first delta with the id, later ones with or without it), the
\* aggregated tool call carries the original argument string.
C5_SplitRoundTrip ==
    (fed # <<>> /\ rest = <<>>)
        => FlattenToolCalls(tcMap) = <<ResolvedCall("c1", NameGet, orig)>>

\* a delta that opens a zero-argument tool call: an id, a name and the text {}
EmptyObjectDeltas ==
    {tc \in AggDeltas : tc.id # "" /\ tc.name # <<>> /\ tc.arguments = ArgsEmptyObject}

\* C6: when the delta carrying the arguments {} of a tool call is delivered k >= 1
\* times at the same slot index and id, the aggregated call's argument string at
\* the end of the stream is exactly one {}.
C6_RetransmittedEmptyObject ==
    \A tc \in EmptyObjectDeltas :
        (fed # <<>> /\ \A i \in 1..Len(fed) : fed[i] = tc)
            => FlattenToolCalls(tcMap) = <<ResolvedCall(tc.id, tc.name, ArgsEmptyObject)>>

\* the same {} delta was delivered three times
C6_Witness ==
    /\ Len(fed) = 3
    /\ fed[1] \in EmptyObjectDeltas
    /\ \A i \in 1..Len(fed) : fed[i] = fed[1]
    /\ Len(FlattenToolCalls(tcMap)) = 1

\* the ids that arrived with a name at slot `index`
NamedIdsAt(index) ==
    {fed[i].id : i \in {j \in 1..Len(fed) :
                          fed[j].index = index /\ fed[j].id # "" /\ fed[j].name # <<>>}}

\* the resolved tool calls that slot `index` contributes to the flattened list
SlotCalls(index) ==
    IF SlotPos(tcMap, index) = 0 THEN <<>>
    ELSE KeepResolved(tcMap[SlotPos(tcMap, index)].calls)

\* every fragment but the one keyed by (index, id) is as it was
OthersUntouched(index, id) ==
    \A p \in 1..Len(tcMap) : \A j \in 1..Len(tcMap[p].calls) :
        (tcMap[p].index # index \/ tcMap[p].calls[j].id # id)
            => tcMap'[p].calls[j] = tcMap[p].calls[j]

\* C7: when two distinct ids, each with a name, arrive at the same slot index,
\* the slot contributes one tool call per id to the flattened list, and a delta
\* delivered with an id changes the buffer of no other id.
C7_TwoIdsOneSlot ==
    /\ [](\A index \in {0, 1} : \A id \in NamedIdsAt(index) :
            Cardinality({j \in 1..Len(SlotCalls(index)) : SlotCalls(index)[j].id = id}) = 1)
    /\ [][(fed' # fed /\ fed'[Len(fed')].id # "")
            => OthersUntouched(fed'[Len(fed')].index, fed'[Len(fed')].id)]_vars

\* two ids with names and different argument text at slot 0, kept apart
C7_Witness ==
    /\ NamedIdsAt(0) = {"c1", "c2"}
    /\ Len(SlotCalls(0)) = 2
    /\ SlotCalls(0)[1].arguments = ArgsOpen
    /\ SlotCalls(0)[2].arguments = ArgsEmptyObject
    /\ Len(FlattenToolCalls(tcMap)) = 2

\* the aggregation before the delta fed last
BeforeLast == ApplyDeltas(<<>>, SubSeq(fed, 1, Len(fed) - 1))

\* C22: once a fragment's argument buffer is brace-balanced (isJsonClosed is
\* true), no later delta of the same stream, with or without an id, changes
\* that buffer.
C22_ClosedBufferFrozen ==
    [][\A p \in 1..Len(tcMap) : \A j \in 1..Len(tcMap[p].calls) :
          isJsonClosed(tcMap[p].calls[j].arguments)
              => tcMap'[p].calls[j].arguments = tcMap[p].calls[j].arguments]_vars

\* a buffer closed by the text {} was the target of more argument text twice,
\* first under its id and then without an id, and it is as it was
C22_Witness ==
    /\ Len(fed) = 3
    /\ fed[1].id = "c1" /\ fed[1].arguments = ArgsEmptyObject
    /\ fed[2].id = "c1" /\ fed[2].arguments = ArgsOpen /\ fed[2].index = fed[1].index
    /\ fed[3].id = "" /\ fed[3].arguments = ArgsEmptyObject /\ fed[3].index = fed[1].index
    /\ isJsonClosed(BeforeLast[1].calls[1].arguments)
    /\ tcMap[1].calls[1].arguments = ArgsEmptyObject

\* C24 as stated: the flattened tool-call list of a turn is ordered by ascending
\* slot index and, within one slot, by fragment creation order, whatever the
\* order in which the slots' first deltas arrived on the wire.
C24_AscendingSlotOrder ==
    FlattenToolCalls(tcMap) = SlotCalls(0) \o SlotCalls(1)

(* One slot fed for longer: updates and continuations of several fragments *)

\* the most deltas fed at the one slot
MaxSlotDeltas == 4

\* the deltas at slot 0: with or without an id, with no name or one of two,
\* with or without an opening argument fragment
SlotDeltas ==
    {Delta(0, id, name, arguments) :
        id \in {"", "c1", "c2"}, name \in {<<>>, NameGet, NameRun},
        arguments \in {<<>>, ArgsOpen}}

FeedSlot(tc) ==
    /\ Len(fed) < MaxSlotDeltas
    /\ tcMap' = ApplyDelta(tcMap, tc)
    /\ fed' = Append(fed, tc)
    /\ UNCHANGED <<orig, rest, lastApiMessages>>
    /\ UNCHANGED <<chatVars, panelVars, sideVars>>

NextSlot == \E tc \in SlotDeltas : FeedSlot(tc)

SpecSlot == InitAgg /\ [][NextSlot]_vars

\* the delta being fed in this step
Fed == fed'[Len(fed')]

\* the fragments of the slot of `index`, none if the slot is not there
FragmentsAt(m, index) == IF SlotPos(m, index) = 0 THEN <<>> ELSE m[SlotPos(m, index)].calls

\* C23: a tool-call delta without an id is applied to the fragment most recently
\* created at its slot index, also when several ids exist at that slot and an
\* older fragment was the last one updated; a delta without an id at a slot that
\* has no fragment yet creates no fragment and changes none.
C23_IdlessGoesToNewest ==
    [][(fed' # fed /\ Fed.id = "") =>
          LET before == FragmentsAt(tcMap, Fed.index)
              after == FragmentsAt(tcMap', Fed.index)
              n == Len(before)
          IN /\ Len(after) = n
             /\ \A j \in 1..(n - 1) : after[j] = before[j]
             /\ n > 0 =>
                   /\ after[n].id = before[n].id
                   /\ after[n].name = IF Fed.name # <<>> THEN Fed.name ELSE before[n].name
                   /\ after[n].arguments =
                         IF Fed.arguments # <<>> /\ ~isJsonClosed(before[n].arguments)
                         THEN before[n].arguments \o Fed.arguments
                         ELSE before[n].arguments
             /\ \A p \in 1..Len(tcMap) :
                   tcMap[p].index # Fed.index => tcMap'[p] = tcMap[p]
             /\ \A p \in 1..Len(tcMap') : p > Len(tcMap) => tcMap'[p].calls = <<>>]_vars

\* c1 was created, c2 was created, c1 was updated, and the delta without an id
\* that came next went to c2
C23_Witness ==
    /\ Len(fed) = 4
    /\ fed[1] = Delta(0, "c1", NameGet, ArgsOpen)
    /\ fed[2] = Delta(0, "c2", NameRun, <<>>)
    /\ fed[3] = Delta(0, "c1", <<>>, ArgsOpen)
    /\ fed[4] = Delta(0, "", <<>>, ArgsOpen)
    /\ tcMap[1].calls[1].arguments = ArgsOpen \o ArgsOpen
    /\ tcMap[1].calls[2].arguments = ArgsOpen

(* Fragments that never get a name: the exchange over a stream with one *)

\* the streams of such an exchange
FragmentStreams == {StreamNameless, StreamTwo, StreamContent}

NextFragments ==
    \/ RequestOk
    \/ \E err \in RequestFailures : RequestFails(err)
    \/ Backoff
    \/ \E stream \in FragmentStreams : ReadStream(stream)
    \/ \E stream \in FragmentStreams, err \in StreamFailures :
          \E readCount \in 0..Len(stream) : StreamFails(stream, readCount, err)
    \/ InvokeExecutor
    \/ \E success \in BOOLEAN : Dispatch(success)
    \/ ExecutorThrows

SpecFragments == Init /\ [][NextFragments]_vars

\* the fragments that are in the list `calls`
InList(calls, f) == \E k \in 1..Len(calls) : calls[k] = f

\* the ledgers of the exchange: what is being built, what is exposed, what was sent
Ledgers == {currentMessages, lastApiMessages, lastSent}

\* C25: a fragment appears in the flattened tool-call list if and only if it has
\* a non-empty id and a non-empty name at end of stream; a fragment whose name
\* never arrived is never dispatched and never written to the ledger.
C25_OnlyNamedFragments ==
    /\ \A n \in 1..Len(turnLog) :
          LET fragments == turnLog[n].fragments
              calls == turnLog[n].calls
          IN /\ \A j \in 1..Len(fragments) :
                   InList(calls, fragments[j])
                       <=> (fragments[j].id # "" /\ fragments[j].name # <<>>)
             /\ \A k \in 1..Len(calls) : InList(fragments, calls[k])
             /\ Len(calls) <= Len(fragments)
    /\ pc \in {"dispatch", "executing"} =>
          /\ toolCalls = turnLog[Len(turnLog)].calls
          /\ toolCalls[tcIdx].name # <<>>
    /\ \A msgs \in Ledgers : \A i \in 1..Len(msgs) :
          /\ \A k \in 1..Len(msgs[i].tool_calls) : msgs[i].tool_calls[k].name # <<>>
          /\ msgs[i].role = "tool" => msgs[i].name # <<>>

\* a turn whose stream left fragment c3 without a name has dispatched c1 alone,
\* and the ledger that went out next holds c1 and its result and nothing of c3
C25_Witness ==
    /\ Len(turnLog) >= 1
    /\ Len(turnLog[1].fragments) = 2
    /\ turnLog[1].fragments[2].id = "c3"
    /\ turnLog[1].fragments[2].name = <<>>
    /\ Len(turnLog[1].calls) = 1
    /\ turnLog[1].results = <<TRUE>>
    /\ requestCount = 2
    /\ Len(lastSent) = Len(initialMessages) + 2
    /\ lastSent[Len(lastSent) - 1].tool_calls = turnLog[1].calls
    /\ lastSent[Len(lastSent)].tool_call_id = "c1"

\* C26 as stated: when the name of a tool call arrives split across several
\* deltas of the same fragment, the resolved tool name is the concatenation of
\* the name fragments in arrival order, as is done for the argument text.
C26_NameConcatenated ==
    [][(fed' # fed /\ Fed.name # <<>>) =>
          LET before == FragmentsAt(tcMap, Fed.index)
              after == FragmentsAt(tcMap', Fed.index)
              t == IF Fed.id # "" THEN IdPos(before, Fed.id) ELSE Len(before)
          IN t > 0 => after[t].name = before[t].name \o Fed.name]_vars

-----------------------------------------------------------------------------
(* The side panel: sending, editing a user message, regenerating *)

\* the most user messages one session holds
MaxUserMessages == 2

\* createSession(): a session without apiMessages
NewSession == [exists |-> TRUE, hasApiMessages |-> FALSE, apiMessages |-> <<>>]

AllButLast(msgs) == SubSeq(msgs, 1, Len(msgs) - 1)

UserCount(msgs) == Cardinality({i \in 1..Len(msgs) : msgs[i].role = "user"})

\* what one streamChat exchange leaves behind: the messages it appended to the
\* ledger after [system, ...messages], the content it streamed, and whether it threw
Outcome(tail, content, threw) == [tail |-> tail, content |-> content, threw |-> threw]

PanelCall == ResolvedCall("c1", NameGet, ArgsEmptyObject)

ExchangeOutcomes ==
    { \* the first request fails
      Outcome(<<>>, <<>>, TRUE),
      \* one turn of plain content
      Outcome(FinalLedger(<<>>, <<"h", "i">>), <<"h", "i">>, FALSE),
      \* a tool turn, then plain content
      Outcome(FinalLedger(<<AssistantToolCallMessage(<<>>, <<PanelCall>>),
                            ToolMessage(PanelCall, ToolResultText)>>, <<"h", "i">>),
              <<"h", "i">>, FALSE),
      \* a tool turn, then a request that fails
      Outcome(<<AssistantToolCallMessage(<<>>, <<PanelCall>>),
                ToolMessage(PanelCall, ToolResultText)>>, <<>>, TRUE) }

InitPanel ==
    /\ ChatOff
    /\ AggIdle
    /\ SideOff
    /\ panelPc = "idle"
    /\ uiMessages = <<>>
    /\ currentSession = NoSession
    /\ editingMessageIndex = -1
    /\ isLoading = FALSE
    /\ editLedger = <<>>
    /\ editK = -1

\* sendMessage up to the call of streamChat
SendMessage(text) ==
    /\ panelPc = "idle"
    /\ ~isLoading
    /\ editingMessageIndex = -1
    /\ UserCount(uiMessages) < MaxUserMessages
    /\ currentSession' = IF currentSession.exists THEN currentSession ELSE NewSession
    /\ uiMessages' = uiMessages \o <<ChatMessage("user", text, <<>>),
                                     ChatMessage("assistant", <<>>, <<>>)>>
    /\ isLoading' = TRUE
    /\ panelPc' = "running"
    /\ UNCHANGED <<editingMessageIndex, editLedger, editK, lastApiMessages>>
    /\ UNCHANGED <<chatVars, aggVars, sideVars>>

\* the for-await over streamChat(messages.slice(0, -1)) ends, with done or a throw;
\* then the catch and finally blocks and saveCurrentSession
ExchangeEnds(outcome) ==
    /\ panelPc = "running"
    /\ lastApiMessages' = BuildApiMessages(AllButLast(uiMessages)) \o outcome.tail
    /\ uiMessages' =
          [uiMessages EXCEPT ![Len(uiMessages)].content = outcome.content]
          \o (IF outcome.threw THEN <<ChatMessage("assistant", <<"!">>, <<>>)>> ELSE <<>>)
    /\ isLoading' = FALSE
    /\ panelPc' = "idle"
    /\ UNCHANGED <<currentSession, editingMessageIndex, editLedger, editK>>
    /\ UNCHANGED <<chatVars, aggVars, sideVars>>

\* startEditMessage(index), offered on user messages while nothing is being edited
StartEditMessage(index) ==
    /\ panelPc = "idle"
    /\ editingMessageIndex = -1
    /\ index < Len(uiMessages)
    /\ uiMessages[index + 1].role = "user"
    /\ editingMessageIndex' = index
    /\ UNCHANGED <<panelPc, uiMessages, currentSession, isLoading, editLedger, editK,
                   lastApiMessages>>
    /\ UNCHANGED <<chatVars, aggVars, sideVars>>

CancelEditMessage ==
    /\ panelPc = "idle"
    /\ editingMessageIndex # -1
    /\ editingMessageIndex' = -1
    /\ UNCHANGED <<panelPc, uiMessages, currentSession, isLoading, editLedger, editK,
                   lastApiMessages>>
    /\ UNCHANGED <<chatVars, aggVars, sideVars>>

\* userIndexInMessages: how many user messages precede position index (0-based)
UserIndexInMessages(msgs, index) ==
    Cardinality({i \in 1..index : msgs[i].role = "user"})

\* 0-based positions of the user messages of an API ledger, in order
UserPositions(ledger) == {i \in 0..(Len(ledger) - 1) : ledger[i + 1].role = "user"}

\* apiCutIndex: the position of the userIndex-th user message, or 0 when the
\* loop finds none
ApiCutIndex(ledger, userIndex) ==
    LET found == {i \in UserPositions(ledger) :
                    Cardinality({j \in UserPositions(ledger) : j < i}) = userIndex}
    IN IF found = {} THEN 0 ELSE CHOOSE i \in found : TRUE

\* currentSession.value.apiMessages || getLastApiMessages()
CurrentApiMessages ==
    IF currentSession.hasApiMessages THEN currentSession.apiMessages ELSE lastApiMessages

\* saveEditMessage up to its await of regenerateResponse
SaveEditMessage(newContent) ==
    /\ panelPc = "idle"
    /\ editingMessageIndex # -1
    /\ currentSession.exists
    /\ LET index == editingMessageIndex
           userIndex == UserIndexInMessages(uiMessages, index)
           truncatedApiMessages ==
               SubSeq(CurrentApiMessages, 1, ApiCutIndex(CurrentApiMessages, userIndex))
       IN /\ uiMessages' = SubSeq([uiMessages EXCEPT ![index + 1].content = newContent],
                                  1, index + 1)
          /\ lastApiMessages' = truncatedApiMessages
          /\ currentSession' = [currentSession EXCEPT !.hasApiMessages = TRUE,
                                                      !.apiMessages = truncatedApiMessages]
          /\ editK' = userIndex
    /\ editLedger' = lastApiMessages
    /\ editingMessageIndex' = -1
    /\ panelPc' = "truncated"
    /\ UNCHANGED isLoading
    /\ UNCHANGED <<chatVars, aggVars, sideVars>>

\* regenerateResponse up to the call of streamChat
RegenerateResponse ==
    /\ panelPc = "truncated"
    /\ isLoading' = TRUE
    /\ uiMessages' = Append(uiMessages, ChatMessage("assistant", <<>>, <<>>))
    /\ panelPc' = "running"
    /\ UNCHANGED <<currentSession, editingMessageIndex, editLedger, editK, lastApiMessages>>
    /\ UNCHANGED <<chatVars, aggVars, sideVars>>

NextPanel ==
    \/ \E text \in {<<"u">>} : SendMessage(text)
    \/ \E outcome \in ExchangeOutcomes : ExchangeEnds(outcome)
    \/ \E index \in 0..(Len(uiMessages) - 1) : StartEditMessage(index)
    \/ CancelEditMessage
    \/ \E newContent \in {<<"e">>} : SaveEditMessage(newContent)
    \/ RegenerateResponse

SpecPanel == InitPanel /\ [][NextPanel]_vars

RECURSIVE PrefixBeforeUser(_, _)
\* the messages of a ledger that precede its k-th user message (k counted from 0)
PrefixBeforeUser(ledger, k) ==
    IF ledger = <<>> THEN <<>>
    ELSE IF Head(ledger).role = "user"
         THEN IF k = 0 THEN <<>>
              ELSE <<Head(ledger)>> \o PrefixBeforeUser(Tail(ledger), k - 1)
    ELSE <<Head(ledger)>> \o PrefixBeforeUser(Tail(ledger), k)

\* C8 as stated: after any sequence of sends and edits, saveEditMessage on the
\* k-th user message leaves the stored API ledger, in getLastApiMessages() and in
\* currentSession.apiMessages, equal to the ledger messages before that user
\* message: the system prompt and the earlier turns, and nothing of the tail.
C8_EditTruncatesLedger ==
    panelPc = "truncated"
        => /\ lastApiMessages = PrefixBeforeUser(editLedger, editK)
           /\ currentSession.apiMessages = PrefixBeforeUser(editLedger, editK)

-----------------------------------------------------------------------------
(* The transport on its own: one exchange met by every class of failure,   *)
(* with the per-attempt timer                                               *)

\* controller.abort() of the timer: the request rejects with an AbortError
AbortFailure == Failure("AbortError", 0, {})
Http429 == Failure("APIError", 429, {})
\* an error the classifier knows nothing about
OtherFailure == Failure("Error", 0, {})
\* an error whose message says "timeout", thrown while the stream is read
StreamStall == Failure("Error", 0, {"timeout"})

\* what a request attempt may reject with, the timer's abort aside
TransportFailures == {Http429, Http503, StreamDrop, Http401, OtherFailure}

\* what the for-await loop may throw
ReadFailures == {StreamDrop, StreamStall, OtherFailure}

InitTransport ==
    /\ \E maxIter \in 1..(MaxIterCap - 1), executor \in BOOLEAN :
          StartExchange(<<UserAsk>>, maxIter, executor)
    /\ AggIdle
    /\ PanelOff
    /\ SideOff

\* setTimeout(() => controller.abort(), timeout) fires while the request is awaited
TimeoutFires ==
    /\ timerArmed
    /\ RequestFails(AbortFailure)

NextTransport ==
    \/ RequestOk
    \/ \E err \in TransportFailures : RequestFails(err)
    \/ TimeoutFires
    \/ Backoff
    \/ \E stream \in {StreamContent, StreamTool} : ReadStream(stream)
    \/ \E err \in ReadFailures :
          \E readCount \in 0..Len(StreamContent) : StreamFails(StreamContent, readCount, err)
    \/ InvokeExecutor
    \/ \E success \in BOOLEAN : Dispatch(success)
    \/ ExecutorThrows

SpecTransport == InitTransport /\ [][NextTransport]_vars

\* await delay(retryDelay) is a timer of at most maxDelay: it returns
SpecTransportLive == SpecTransport /\ WF_vars(Backoff)

RetryableCodes == {"TIMEOUT", "NETWORK_ERROR", "RATE_LIMIT", "SERVER_ERROR"}

\* the latest turn ended with an error thrown by the for-await loop
StreamBroke == turnLog # <<>> /\ turnLog[Len(turnLog)].failed

\* The original statement of C11, as far as it is a safety statement: a failure
\* of a retryable class that occurs while attempts remain, be it a rejected
\* request or a drop of the stream, does not end the exchange.
C11_Original ==
    (pc = "failed" /\ thrown \in RetryableCodes) => attempt >= MaxRetries

\* C11 (amended): a request attempt that fails with TIMEOUT, NETWORK_ERROR,
\* RATE_LIMIT or SERVER_ERROR while attempts remain is surfaced as an error event
\* with retrying = true and is followed by the next attempt of that send; an
\* error thrown while the stream is read is surfaced once with retrying = false
\* and ends the exchange with its classification, whatever attempts remain.
C11_RequestFailuresRetried ==
    /\ [][(pc = "send" /\ failure' # NoFailure /\ attempt < MaxRetries
             /\ parseError(failure').code \in RetryableCodes)
            => /\ pc' = "backoff"
               /\ events' = events \o <<ErrorEvent(parseError(failure'), TRUE, attempt),
                                        ThinkingEvent>>]_vars
    /\ [](pc = "backoff" => lastError.code \in RetryableCodes)
    /\ \A k \in 0..(MaxRetries - 1) :
          (pc = "backoff" /\ attempt = k) ~> (pc = "send" /\ attempt = k + 1)
    /\ [](StreamBroke
            => /\ pc = "failed"
               /\ thrown = parseError(failure).code
               /\ LastEvent = ErrorEvent(parseError(failure), FALSE, MaxRetries))

\* three attempts of one send failed with three different retryable classes and
\* the 4th attempt is under way
C11_Witness ==
    /\ pc = "send"
    /\ attempt = 3
    /\ FailedAttempts("TIMEOUT") = {0}
    /\ FailedAttempts("RATE_LIMIT") = {1}
    /\ FailedAttempts("NETWORK_ERROR") = {2}
    /\ \A i \in 1..Len(events) : events[i].type = "error" => events[i].retrying

-----------------------------------------------------------------------------
(* The end of an exchange *)

\* the positions of the terminal events in a list of events: done, or an error
\* event with retrying = false
TerminalEvents(evs) ==
    {i \in 1..Len(evs) :
        evs[i].type = "done" \/ (evs[i].type = "error" /\ ~evs[i].retrying)}

\* C12 as stated: a running exchange has emitted no terminal event; an exchange
\* that has ended emitted exactly one and emitted it last: done, or an error
\* event with retrying = false that carries the ApiError then thrown. It never
\* fails without that error event.
C12_OneTerminalEvent ==
    /\ pc \notin {"done", "failed"} => TerminalEvents(events) = {}
    /\ pc = "done"
          => /\ TerminalEvents(events) = {Len(events)}
             /\ LastEvent = DoneEvent
             /\ thrown = "none"
    /\ pc = "failed"
          => /\ TerminalEvents(events) = {Len(events)}
             /\ LastEvent.type = "error"
             /\ LastEvent.code = thrown

\* the same statement for the exchanges in which no tool executor call rejects
C12_ExceptExecutorRejection == thrown # "exception" => C12_OneTerminalEvent

\* the error events in a list of events
ErrorEvents(evs) == {i \in 1..Len(evs) : evs[i].type = "error"}

\* the exchange has ended with done at the cap, its last turn asking for tools
EndedAtCap ==
    /\ pc = "done"
    /\ hasExecutor
    /\ Len(turnLog) = maxIterations
    /\ turnLog[Len(turnLog)].calls # <<>>

\* C13: an exchange performs at most maxIterations model turns, discarded turns
\* included; in its last allowed turn no step leads to a further request; and
\* when the cap is reached while the model still asks for tools the exchange
\* ends with done, the ending step emitting no error event and nothing thrown.
C13_IterationCap ==
    /\ [](Len(turnLog) <= maxIterations /\ iteration <= maxIterations)
    /\ [][(iteration = maxIterations /\ pc \in {"stream", "executing"})
            => pc' \in {"stream", "dispatch", "executing", "done", "failed"}]_vars
    /\ [][(pc # "done" /\ EndedAtCap')
            => /\ LastEvent' = DoneEvent
               /\ Cardinality(ErrorEvents(events')) = Cardinality(ErrorEvents(events))
               /\ thrown' = "none"]_vars
    /\ [](EndedAtCap => TerminalEvents(events) = {Len(events)})

\* two turns under a cap of 2: the first discarded after a failed tool, the
\* second with a tool that ran; the exchange ended with done
C13_Witness ==
    /\ EndedAtCap
    /\ maxIterations = 2
    /\ turnLog[1].results = <<FALSE>>
    /\ turnLog[2].results = <<TRUE>>
    /\ LastEvent = DoneEvent

-----------------------------------------------------------------------------
(* The dispatch of one turn's tool calls *)

IsToolFlowEvent(e) == e.type \in {"tool_call", "tool_result", "error", "done"}

\* the tool_call, tool_result, error and done events of the turn, in order
ToolFlow == SelectSeq(events, IsToolFlowEvent)

IsToolCallEvent(e) == e.type = "tool_call"

\* the tool_call events of the turn, in order
ToolCallsAnnounced == SelectSeq(events, IsToolCallEvent)

-----------------------------------------------------------------------------
(* The classifier on its own: one send whose attempts meet every failure   *)

\* the errors a catch block may hand to parseError: each class of exception,
\* with or without an HTTP status, its message holding any of the keywords
ClassifierInputs ==
    {Failure(kind, status, words) :
        kind \in {"AbortError", "APIError", "TypeError", "Error"},
        status \in {0, 400, 401, 402, 403, 404, 429, 503},
        words \in SUBSET {"timeout", "network", "fetch", "quota"}}

InitClassify ==
    /\ StartExchange(<<UserAsk>>, 1, FALSE)
    /\ AggIdle
    /\ PanelOff
    /\ SideOff

NextClassify ==
    \/ \E err \in ClassifierInputs : RequestFails(err)
    \/ Backoff

SpecClassify == InitClassify /\ [][NextClassify]_vars

\* an error of the OpenAI SDK with one of the statuses the classifier knows
HttpClassified(f) ==
    f.kind = "APIError" /\ (f.status \in {400, 401, 403, 404, 429} \/ f.status >= 500)

\* a network-layer exception: a TypeError that speaks of fetch or network
NetworkLayer(f) == f.kind = "TypeError" /\ f.words \cap {"fetch", "network"} # {}

\* C15: parseError maps every failure to one taxonomy entry in the stated order:
\* abort gives TIMEOUT; otherwise the HTTP status decides, whatever the message
\* says of timeout or network (401/403 AUTH_ERROR, 429 QUOTA_EXCEEDED with
\* quota/billing wording and RATE_LIMIT without, 404 MODEL_NOT_FOUND, 400
\* INVALID_REQUEST, >= 500 SERVER_ERROR); otherwise a network-layer exception
\* gives NETWORK_ERROR; otherwise the message keywords give TIMEOUT or
\* NETWORK_ERROR, else UNKNOWN.  retryable is true exactly for TIMEOUT,
\* NETWORK_ERROR, RATE_LIMIT and SERVER_ERROR.
C15_ClassificationOrder ==
    failure # NoFailure =>
        LET f == failure
            http == f.kind # "AbortError" /\ HttpClassified(f)
            rest4 == f.kind # "AbortError" /\ ~HttpClassified(f)
        IN
        /\ f.kind = "AbortError" => lastError.code = "TIMEOUT"
        /\ (http /\ f.status \in {401, 403}) => lastError.code = "AUTH_ERROR"
        /\ (http /\ f.status = 429 /\ f.words \cap {"quota", "billing", "insufficient"} # {})
              => lastError.code = "QUOTA_EXCEEDED"
        /\ (http /\ f.status = 429 /\ f.words \cap {"quota", "billing", "insufficient"} = {})
              => lastError.code = "RATE_LIMIT"
        /\ (http /\ f.status = 404) => lastError.code = "MODEL_NOT_FOUND"
        /\ (http /\ f.status = 400) => lastError.code = "INVALID_REQUEST"
        /\ (http /\ f.status >= 500) => lastError.code = "SERVER_ERROR"
        /\ (rest4 /\ NetworkLayer(f)) => lastError.code = "NETWORK_ERROR"
        /\ (rest4 /\ ~NetworkLayer(f) /\ "timeout" \in f.words) => lastError.code = "TIMEOUT"
        /\ (rest4 /\ ~NetworkLayer(f) /\ "timeout" \notin f.words
                  /\ f.words \cap {"network", "econnrefused", "enotfound"} # {})
              => lastError.code = "NETWORK_ERROR"
        /\ (rest4 /\ ~NetworkLayer(f) /\ "timeout" \notin f.words
                  /\ f.words \cap {"network", "econnrefused", "enotfound"} = {})
              => lastError.code = "UNKNOWN"
        /\ lastError.retryable <=> lastError.code \in RetryableCodes

\* an HTTP 503 whose message speaks of timeout and network was classified by its
\* status, after an earlier attempt met a 429 with quota wording aside
C15_Witness ==
    /\ failure = Failure("APIError", 503, {"timeout", "network"})
    /\ lastError = ApiError("SERVER_ERROR", TRUE)
    /\ attempt = 1
    /\ pc = "backoff"

-----------------------------------------------------------------------------
(* The per-attempt timer, and the lists sent to the model *)

\* C16 as stated: an attempt in flight, waiting for the response or for a chunk
\* of the stream, has its timer pending, so that it is aborted when
\* retryConfig.timeout elapses.
C16_AttemptTimeBounded ==
    pc \in {"send", "stream"} => timerArmed

\* the position of the nearest assistant message before position i, or 0
NearestAssistantBefore(list, i) ==
    LET before == {j \in 1..(i - 1) : list[j].role = "assistant"} IN
    IF before = {} THEN 0 ELSE CHOOSE j \in before : \A k \in before : k <= j

\* every tool message of the list answers a tool call of the nearest assistant
\* message before it
ToolMessagesAnswer(list) ==
    \A i \in 1..Len(list) :
        list[i].role = "tool"
            => LET j == NearestAssistantBefore(list, i) IN
               /\ j > 0
               /\ \E c \in 1..Len(list[j].tool_calls) :
                     list[j].tool_calls[c].id = list[i].tool_call_id

\* C17: in every message list sent to the model, each tool message's
\* tool_call_id is the id of one of the tool_calls of the nearest preceding
\* assistant message of that list.
C17_ToolMessagesReferenceAssistant ==
    /\ ToolMessagesAnswer(lastSent)
    /\ pc = "send" => ToolMessagesAnswer(currentMessages)

\* a request was sent whose list ends with an assistant message of two tool
\* calls and the two tool messages that answer them
C17_Witness ==
    /\ pc = "stream"
    /\ Len(lastSent) >= 3
    /\ lastSent[Len(lastSent)].role = "tool"
    /\ lastSent[Len(lastSent)].tool_call_id = "c2"
    /\ lastSent[Len(lastSent) - 1].role = "tool"
    /\ lastSent[Len(lastSent) - 1].tool_call_id = "c1"
    /\ Len(lastSent[Len(lastSent) - 2].tool_calls) = 2

\* C18 as stated: when a model request is issued, the ledger exposed by
\* getLastApiMessages() is the message list carried by that request; after a
\* DiscardAndRetry it holds nothing of the discarded turn.
C18_LedgerIsRequest ==
    pc = "send" => lastApiMessages = currentMessages

-----------------------------------------------------------------------------
(* Two exchanges side by side: two calls of streamChat, each suspended at   *)
(* its awaits, with their locals in xch and the one module-level            *)
(* lastApiMessages between them                                             *)

\* the locals of one call of streamChat
Locals(at, maxIter, msgs, iter, att, retries) ==
    [pc |-> at, maxIterations |-> maxIter, currentMessages |-> msgs,
     iteration |-> iter, attempt |-> att, toolCallRetryCount |-> retries]

\* a call that has not been made yet
NotCalled == Locals("idle", DefaultMaxIterations, <<>>, 0, 0, 0)

InitPair ==
    /\ ChatOff
    /\ AggIdle
    /\ PanelOff
    /\ xch = <<NotCalled, NotCalled>>
    /\ wireRequest = <<>>
    /\ ScriptOff
    /\ PureOff

\* streamChat is called: the setup up to the first request
XStart(x, messages, maxIter) ==
    /\ xch[x].pc = "idle"
    /\ xch' = [xch EXCEPT ![x] = Locals("send", maxIter, BuildApiMessages(messages), 1, 0, 0)]
    /\ lastApiMessages' = BuildApiMessages(messages)
    /\ UNCHANGED <<chatVars, aggVars, panelVars, wireRequest, scriptVars, pureVars>>

\* `continue` and the loop test, for the locals l
XContinue(l) ==
    IF l.iteration < l.maxIterations
    THEN [l EXCEPT !.pc = "send", !.iteration = @ + 1, !.attempt = 0]
    ELSE [l EXCEPT !.pc = "done"]

\* a request attempt fails with HTTP 503: the catch block and the delay
XRequestFails(x) ==
    /\ xch[x].pc = "send"
    /\ xch' = [xch EXCEPT ![x] =
                 IF StopRetrying(parseError(Http503), xch[x].attempt)
                 THEN [@ EXCEPT !.pc = "failed"]
                 ELSE [@ EXCEPT !.attempt = @ + 1]]
    /\ UNCHANGED lastApiMessages
    /\ UNCHANGED <<chatVars, aggVars, panelVars, wireRequest, scriptVars, pureVars>>

\* a request attempt succeeds
XRequestOk(x) ==
    /\ xch[x].pc = "send"
    /\ xch' = [xch EXCEPT ![x].pc = "stream"]
    /\ UNCHANGED lastApiMessages
    /\ UNCHANGED <<chatVars, aggVars, panelVars, wireRequest, scriptVars, pureVars>>

\* the stream of a turn with one tool call was read: the assistant message is
\* pushed and the executor is awaited
XToolTurn(x) ==
    /\ xch[x].pc = "stream"
    /\ LET st == ReadChunks(ReadState(<<>>, <<>>, <<>>), StreamTool)
           msgs == Append(xch[x].currentMessages,
                          AssistantToolCallMessage(st.content, FlattenToolCalls(st.map)))
       IN
       /\ xch' = [xch EXCEPT ![x].pc = "executing", ![x].currentMessages = msgs]
       /\ lastApiMessages' = msgs
    /\ UNCHANGED <<chatVars, aggVars, panelVars, wireRequest, scriptVars, pureVars>>

\* the executor returns
XToolReturns(x, success) ==
    /\ xch[x].pc = "executing"
    /\ LET l == xch[x]
           tc == l.currentMessages[Len(l.currentMessages)].tool_calls[1]
       IN
       IF success
       THEN /\ xch' = [xch EXCEPT ![x] =
                         XContinue([l EXCEPT !.currentMessages =
                                       Append(@, ToolMessage(tc, ToolResultText))])]
            /\ lastApiMessages' = Append(l.currentMessages, ToolMessage(tc, ToolResultText))
       ELSE /\ xch' = [xch EXCEPT ![x] =
                         IF ToolBudgetExhausted(l.toolCallRetryCount + 1)
                         THEN [l EXCEPT !.pc = "failed", !.toolCallRetryCount = @ + 1]
                         ELSE XContinue([l EXCEPT !.toolCallRetryCount = @ + 1,
                                                  !.currentMessages = PopDiscard(@)])]
            /\ UNCHANGED lastApiMessages
    /\ UNCHANGED <<chatVars, aggVars, panelVars, wireRequest, scriptVars, pureVars>>

\* the stream of a turn with content and no tool call was read: the break
XFinalTurn(x) ==
    /\ xch[x].pc = "stream"
    /\ LET st == ReadChunks(ReadState(<<>>, <<>>, <<>>), StreamContent) IN
       lastApiMessages' = FinalLedger(xch[x].currentMessages, st.content)
    /\ xch' = [xch EXCEPT ![x].pc = "done"]
    /\ UNCHANGED <<chatVars, aggVars, panelVars, wireRequest, scriptVars, pureVars>>

NextPair ==
    \E x \in {1, 2} :
        \/ \E messages \in InitialHistories, maxIter \in 1..(MaxIterCap - 1) :
              XStart(x, messages, maxIter)
        \/ XRequestFails(x)
        \/ XRequestOk(x)
        \/ XToolTurn(x)
        \/ \E success \in BOOLEAN : XToolReturns(x, success)
        \/ XFinalTurn(x)

SpecPair == InitPair /\ [][NextPair]_vars

\* exchange x is between its call and its end
InFlight(x) == xch[x].pc \in {"send", "stream", "executing"}

\* C19 as stated: of two interleaved exchanges neither writes state of the
\* other: while an exchange is in flight, a step that is not its own changes
\* neither its counters nor the ledger it reads through getLastApiMessages().
C19_ExchangesIsolated ==
    [][\A x \in {1, 2} :
          (InFlight(x) /\ xch'[x] = xch[x]) => lastApiMessages' = lastApiMessages]_vars

-----------------------------------------------------------------------------
(* The tool list of a request: getFilteredTools and what streamChat sends  *)

\* the most skills installed
MaxSkills == 2

\* availableTools, by name and in order
availableTools ==
    <<"extract_page_content", "activate_skill", "execute_skill_script", "read_skill_file">>

SkillTools == {"activate_skill", "execute_skill_script", "read_skill_file"}

\* the context argument: absent, or with sharePageContent true, false or left
\* out and with skills left out (-1) or a list of that many skills
Context(present, sharePageContent, skills) ==
    [present |-> present, sharePageContent |-> sharePageContent, skills |-> skills]

NoContext == Context(FALSE, "undefined", -1)

Contexts ==
    {NoContext} \cup
    {Context(TRUE, share, skills) :
        share \in {"true", "false", "undefined"}, skills \in -1..MaxSkills}

\* the filter's verdict on one tool
KeepTool(toolName, context) ==
    IF toolName = "extract_page_content" /\ context.sharePageContent # "true"
    THEN FALSE
    ELSE IF toolName \in SkillTools
         THEN context.skills > 0
    ELSE TRUE

\* a filter that offers the skill tools whatever is installed
getFilteredToolsIgnoreSkills(context) ==
    LET Keep(toolName) ==
            ~(toolName = "extract_page_content" /\ context.sharePageContent # "true")
    IN SelectSeq(availableTools, Keep)

getFilteredTools(context) ==
    LET Keep(toolName) == KeepTool(toolName, context) IN
    SelectSeq(availableTools, Keep)

\* an optional value of the request body
Undefined == [defined |-> FALSE, value |-> <<>>]
Defined(v) == [defined |-> TRUE, value |-> v]

\* the config and context an exchange is called with, and what it has made of them
WireRequest(stage, enableTools, executor, context, tools, openaiTools, tool_choice) ==
    [stage |-> stage, enableTools |-> enableTools, executor |-> executor,
     context |-> context, tools |-> tools, openaiTools |-> openaiTools,
     tool_choice |-> tool_choice]

InitTools ==
    /\ ChatOff
    /\ AggIdle
    /\ PanelOff
    /\ xch = <<>>
    /\ ScriptOff
    /\ PureOff
    /\ \E enableTools \in {"true", "false", "undefined"}, executor \in BOOLEAN,
          context \in Contexts :
          wireRequest = WireRequest("called", enableTools, executor, context,
                                    <<>>, Undefined, Undefined)

\* const tools = enableTools ? getFilteredTools(context) : [] and
\* const openaiTools = tools.length > 0 ? convertTools(tools) : undefined,
\* with enableTools = config?.enableTools ?? true
PrepareTools ==
    /\ wireRequest.stage = "called"
    /\ LET tools == IF wireRequest.enableTools # "false"
                    THEN getFilteredTools(wireRequest.context) ELSE <<>>
       IN wireRequest' = [wireRequest EXCEPT
                            !.stage = "prepared",
                            !.tools = tools,
                            !.openaiTools = IF Len(tools) > 0 THEN Defined(tools)
                                            ELSE Undefined]
    /\ UNCHANGED <<chatVars, aggVars, panelVars, xch, lastApiMessages, scriptVars, pureVars>>

\* client.chat.completions.create({tools: openaiTools,
\*                                 tool_choice: openaiTools ? 'auto' : undefined, ...})
SendWireRequest ==
    /\ wireRequest.stage = "prepared"
    /\ wireRequest' = [wireRequest EXCEPT
                         !.stage = "sent",
                         !.tool_choice = IF wireRequest.openaiTools.defined
                                         THEN Defined(<<"auto">>) ELSE Undefined]
    /\ UNCHANGED <<chatVars, aggVars, panelVars, xch, lastApiMessages, scriptVars, pureVars>>

NextTools == PrepareTools \/ SendWireRequest

SpecTools == InitTools /\ [][NextTools]_vars

\* the tool names the sent request offers
Offered ==
    IF wireRequest.openaiTools.defined
    THEN {wireRequest.openaiTools.value[i] : i \in 1..Len(wireRequest.openaiTools.value)}
    ELSE {}

\* C20: of a request sent with tools enabled, extract_page_content is offered
\* if and only if sharePageContent is true, and activate_skill,
\* execute_skill_script and read_skill_file are offered if and only if at least
\* one skill is installed; when enableTools is false or the filtered list is
\* empty the request carries no tools and no tool_choice, and otherwise it
\* carries the filtered list with tool_choice auto.
C20_ToolsFollowContext ==
    wireRequest.stage = "sent" =>
        LET context == wireRequest.context
            enabled == wireRequest.enableTools # "false"
        IN
        /\ enabled => /\ "extract_page_content" \in Offered
                          <=> context.sharePageContent = "true"
                      /\ \A t \in SkillTools : t \in Offered <=> context.skills >= 1
        /\ (~enabled \/ wireRequest.tools = <<>>)
              => /\ ~wireRequest.openaiTools.defined
                 /\ ~wireRequest.tool_choice.defined
        /\ (enabled /\ wireRequest.tools # <<>>)
              => /\ wireRequest.openaiTools = Defined(wireRequest.tools)
                 /\ wireRequest.tool_choice = Defined(<<"auto">>)
        /\ Offered \subseteq {availableTools[i] : i \in 1..Len(availableTools)}

\* a request sent with the page shared and an empty list of skills offers
\* extract_page_content alone
C20_Witness ==
    /\ wireRequest.stage = "sent"
    /\ wireRequest.context = Context(TRUE, "true", 0)
    /\ wireRequest.enableTools = "undefined"
    /\ Offered = {"extract_page_content"}
    /\ wireRequest.tool_choice = Defined(<<"auto">>)

-----------------------------------------------------------------------------
(* Script execution: executeScript and the trusted-scripts store            *)

\* the scripts a skill can ask to run: skill id, script name, language
Script(skillId, name, language) == [skillId |-> skillId, name |-> name, language |-> language]

Scripts ==
    {Script("s1", "run.js", "javascript"), Script("s1", "fill.js", "javascript"),
     Script("s2", "run.py", "python")}

\* a TrustedScript record (trustedAt left out: nothing reads it)
TrustedScript(skillId, scriptName) == [skillId |-> skillId, scriptName |-> scriptName]

\* scripts.some(s => s.skillId === skillId && s.scriptName === scriptName)
SomeTrusted(scripts, skillId, scriptName) ==
    \E i \in 1..Len(scripts) :
        scripts[i].skillId = skillId /\ scripts[i].scriptName = scriptName

isScriptTrusted(skillId, scriptName) == SomeTrusted(trustedScripts, skillId, scriptName)

\* what the confirmation callback resolved with; "undefined" before it has
NoConfirmation == [asked |-> FALSE, confirmed |-> FALSE, trustForever |-> FALSE]
Confirmation(confirmed, trustForever) ==
    [asked |-> TRUE, confirmed |-> confirmed, trustForever |-> trustForever]

\* an executeScript call: where it is, what it was asked, and what it has done
ExecCall(at, script, tabId, trusted, confirmation, scripts, sent, wrote, success) ==
    [pc |-> at, script |-> script, tabId |-> tabId, trusted |-> trusted,
     confirmation |-> confirmation, scripts |-> scripts, sent |-> sent,
     wrote |-> wrote, success |-> success]

\* return {success: false, ...}
\* no call has been made yet
NoExec == ExecCall("idle", Script("", "", ""), FALSE, FALSE, NoConfirmation, <<>>,
                   FALSE, FALSE, FALSE)

ReturnFailure == exec' = [exec EXCEPT !.pc = "returned", !.success = FALSE]

InitScript ==
    /\ ChatOff
    /\ AggIdle
    /\ PanelOff
    /\ xch = <<>>
    /\ wireRequest = <<>>
    /\ trustedScripts = <<>>
    /\ confirmCallback = FALSE
    /\ exec = NoExec
    /\ PureOff

\* setScriptConfirmCallback(callback)
setScriptConfirmCallback ==
    /\ confirmCallback' = TRUE
    /\ UNCHANGED <<trustedScripts, exec>>
    /\ UNCHANGED <<chatVars, aggVars, panelVars, xch, wireRequest, lastApiMessages, pureVars>>

\* executeScript(request) up to its first await: the language test
executeScript(script, tabId) ==
    /\ exec.pc \in {"idle", "returned"}
    /\ exec' = ExecCall(IF script.language # "javascript" THEN "returned" ELSE "checkTrust",
                        script, tabId, FALSE, NoConfirmation, <<>>, FALSE, FALSE, FALSE)
    /\ UNCHANGED <<trustedScripts, confirmCallback>>
    /\ UNCHANGED <<chatVars, aggVars, panelVars, xch, wireRequest, lastApiMessages, pureVars>>

\* const trusted = await isScriptTrusted(...), and the test for a callback
CheckTrusted ==
    /\ exec.pc = "checkTrust"
    /\ LET trusted == isScriptTrusted(exec.script.skillId, exec.script.name) IN
       IF trusted
       THEN exec' = [exec EXCEPT !.pc = "run", !.trusted = TRUE]
       ELSE IF ~confirmCallback
            THEN ReturnFailure
       ELSE exec' = [exec EXCEPT !.pc = "confirming"]
    /\ UNCHANGED <<trustedScripts, confirmCallback>>
    /\ UNCHANGED <<chatVars, aggVars, panelVars, xch, wireRequest, lastApiMessages, pureVars>>

\* a call that records trust on every confirmation
WantsTrustAlways(confirmation) == TRUE

\* whether the confirmation asks for a trust record
WantsTrust(confirmation) == confirmation.trustForever

\* const confirmation = await confirmCallback(...), and the two tests on it
Confirm(confirmed, trustForever) ==
    /\ exec.pc = "confirming"
    /\ LET confirmation == Confirmation(confirmed, trustForever) IN
       IF ~confirmation.confirmed
       THEN exec' = [exec EXCEPT !.pc = "returned", !.success = FALSE,
                                 !.confirmation = confirmation]
       ELSE exec' = [exec EXCEPT !.confirmation = confirmation,
                                 !.pc = IF WantsTrust(confirmation)
                                        THEN "trustRead" ELSE "run"]
    /\ UNCHANGED <<trustedScripts, confirmCallback>>
    /\ UNCHANGED <<chatVars, aggVars, panelVars, xch, wireRequest, lastApiMessages, pureVars>>

\* trustScript: const scripts = await trustedScriptsStorage.getValue(), and the
\* test whether the record is already there
TrustRead ==
    /\ exec.pc = "trustRead"
    /\ exec' = [exec EXCEPT
                  !.scripts = trustedScripts,
                  !.pc = IF SomeTrusted(trustedScripts, exec.script.skillId, exec.script.name)
                         THEN "run" ELSE "trustWrite"]
    /\ UNCHANGED <<trustedScripts, confirmCallback>>
    /\ UNCHANGED <<chatVars, aggVars, panelVars, xch, wireRequest, lastApiMessages, pureVars>>

\* trustScript: scripts.push(...); await trustedScriptsStorage.setValue(scripts)
TrustWrite ==
    /\ exec.pc = "trustWrite"
    /\ trustedScripts' =
          Append(exec.scripts, TrustedScript(exec.script.skillId, exec.script.name))
    /\ exec' = [exec EXCEPT !.pc = "run", !.wrote = TRUE]
    /\ UNCHANGED confirmCallback
    /\ UNCHANGED <<chatVars, aggVars, panelVars, xch, wireRequest, lastApiMessages, pureVars>>

\* the try block: the script content is read (which may throw), the target tab
\* is tabId ?? await getActiveTabId(), and with a tab the script goes to the
\* background, whose answer is a result or an error
RunScript(contentRead, activeTab, backgroundOk) ==
    /\ exec.pc = "run"
    /\ LET targetTabId == IF exec.tabId THEN TRUE ELSE activeTab IN
       IF ~contentRead \/ ~targetTabId
       THEN ReturnFailure
       ELSE exec' = [exec EXCEPT !.pc = "returned", !.sent = TRUE,
                                 !.success = backgroundOk]
    /\ UNCHANGED <<trustedScripts, confirmCallback>>
    /\ UNCHANGED <<chatVars, aggVars, panelVars, xch, wireRequest, lastApiMessages, pureVars>>

\* untrustScript, from the options page
untrustScript(skillId, scriptName) ==
    /\ LET Kept(s) == ~(s.skillId = skillId /\ s.scriptName = scriptName) IN
       trustedScripts' = SelectSeq(trustedScripts, Kept)
    /\ UNCHANGED <<confirmCallback, exec>>
    /\ UNCHANGED <<chatVars, aggVars, panelVars, xch, wireRequest, lastApiMessages, pureVars>>

NextScript ==
    \/ setScriptConfirmCallback
    \/ \E script \in Scripts, tabId \in BOOLEAN : executeScript(script, tabId)
    \/ CheckTrusted
    \/ \E confirmed \in BOOLEAN, trustForever \in BOOLEAN : Confirm(confirmed, trustForever)
    \/ TrustRead
    \/ TrustWrite
    \/ \E contentRead \in BOOLEAN, activeTab \in BOOLEAN, backgroundOk \in BOOLEAN :
          RunScript(contentRead, activeTab, backgroundOk)
    \/ \E script \in Scripts : untrustScript(script.skillId, script.name)

SpecScript == InitScript /\ [][NextScript]_vars

\* the call in progress was answered with a refusal, or found no callback
Declined == exec.confirmation.asked /\ ~exec.confirmation.confirmed
NoCallback == ~exec.trusted /\ ~exec.confirmation.asked /\ exec.script.language = "javascript"

\* C21: executeScript sends a script to the background for execution only if the
\* script was found trusted or the confirmation callback returned confirmed =
\* true during this call; when the user declines or no callback is set the
\* script is not executed and the call leaves the trusted-scripts store as it
\* is; and the call writes a trust record only when the user confirmed with
\* trustForever = true.
C21_TrustGate ==
    exec.pc # "idle" =>
        /\ exec.sent => (exec.trusted \/ exec.confirmation.confirmed)
        /\ exec.wrote => (exec.confirmation.confirmed /\ exec.confirmation.trustForever)
        /\ (exec.pc = "returned" /\ (Declined \/ NoCallback)) => (~exec.sent /\ ~exec.wrote)

\* a call for an untrusted script that the user confirmed with trustForever has
\* written the trust record and sent the script to the background
C21_Witness ==
    /\ exec.pc = "returned"
    /\ ~exec.trusted
    /\ exec.confirmation = Confirmation(TRUE, TRUE)
    /\ exec.wrote
    /\ exec.sent
    /\ SomeTrusted(trustedScripts, exec.script.skillId, exec.script.name)

-----------------------------------------------------------------------------
(* getRetryDelay: the wait before a retry                                   *)

\* DEFAULT_RETRY_CONFIG.baseDelay and .maxDelay, in milliseconds
DefaultBaseDelay == 1000
DefaultMaxDelay == 10000

\* the factor of Math.random() in the jitter
JitterRange == 1000

\* the largest attempt number a wait is computed for
MaxAttempt == 4

RetryConfig(baseDelay, maxDelay) == [baseDelay |-> baseDelay, maxDelay |-> maxDelay]

\* the default configuration and two that a caller may pass: a short one, and
\* one whose cap lies below its base delay
RetryConfigs ==
    {RetryConfig(DefaultBaseDelay, DefaultMaxDelay), RetryConfig(500, 3000),
     RetryConfig(2000, 1500)}

\* values of Math.random() * 1000, which lies in [0, 1000)
Jitters == {0, 1, 250, 500, JitterRange - 1}

RECURSIVE Pow2(_)
\* Math.pow(2, n)
Pow2(n) == IF n = 0 THEN 1 ELSE 2 * Pow2(n - 1)

\* Math.min
Min(a, b) == IF a <= b THEN a ELSE b

\* a wait that is not capped
getRetryDelayNoCap(attemptNo, config, jitter) ==
    config.baseDelay * Pow2(attemptNo) + jitter

getRetryDelay(attemptNo, config, jitter) ==
    LET exponentialDelay == config.baseDelay * Pow2(attemptNo) IN
    Min(exponentialDelay + jitter, config.maxDelay)

InitDelay ==
    /\ ChatOff
    /\ AggIdle
    /\ PanelOff
    /\ xch = <<>>
    /\ wireRequest = <<>>
    /\ ScriptOff
    /\ sse = <<>>
    /\ sends = <<>>
    /\ \E config \in RetryConfigs, attemptNo \in 0..MaxAttempt, jitter \in Jitters :
          wait = [stage |-> "called", config |-> config, attempt |-> attemptNo,
                  jitter |-> jitter, delay |-> 0]

\* const retryDelay = getRetryDelay(attempt, retryConfig)
ComputeDelay ==
    /\ wait.stage = "called"
    /\ wait' = [wait EXCEPT !.stage = "returned",
                            !.delay = getRetryDelay(wait.attempt, wait.config, wait.jitter)]
    /\ UNCHANGED <<chatVars, aggVars, panelVars, xch, wireRequest, lastApiMessages,
                   scriptVars, sse, sends>>

NextDelay == ComputeDelay

SpecDelay == InitDelay /\ [][NextDelay]_vars

\* C27: the wait before retry number attempt is min(baseDelay * 2^attempt +
\* jitter, maxDelay) with 0 <= jitter < 1000 ms: it never exceeds maxDelay, and
\* for every attempt it is at least min(baseDelay * 2^attempt, maxDelay).
C27_DelayBounds ==
    wait.stage = "returned" =>
        LET exponentialDelay == wait.config.baseDelay * Pow2(wait.attempt)
            cap == wait.config.maxDelay
        IN /\ 0 <= wait.jitter /\ wait.jitter < 1000
           /\ wait.delay = (IF exponentialDelay + wait.jitter <= cap
                            THEN exponentialDelay + wait.jitter ELSE cap)
           /\ wait.delay <= cap
           /\ wait.delay >= (IF exponentialDelay <= cap THEN exponentialDelay ELSE cap)

\* the wait before retry number 4 under the default configuration, where
\* 16000 ms plus jitter is cut to the cap of 10000 ms
C27_Witness ==
    /\ wait.stage = "returned"
    /\ wait.config = RetryConfig(DefaultBaseDelay, DefaultMaxDelay)
    /\ wait.attempt = 4
    /\ wait.jitter = 999
    /\ wait.delay = 10000

-----------------------------------------------------------------------------
(* The retries of one send, and the two counters of an exchange             *)

\* the positions in `events` of the error events with retrying = true
RetryPositions == {i \in 1..Len(events) : events[i].type = "error" /\ events[i].retrying}

\* how many retry notices lie before position i
RetriesBefore(i) == Cardinality({j \in RetryPositions : j < i})

\* C28: for every retried attempt the events and steps occur in this order:
\* error event with retrying = true carrying the 0-based attempt number, then a
\* thinking event, then the backoff sleep, then the next request; within one
\* send the retrying = true events carry attempt numbers 0, 1, 2, ... in
\* increasing order and there are at most maxRetries of them.
C28_RetryOrder ==
    /\ [](/\ \A i \in RetryPositions :
                /\ events[i].attempt = RetriesBefore(i)
                /\ i < Len(events) /\ events[i + 1].type = "thinking"
          /\ Cardinality(RetryPositions) <= MaxRetries
          /\ pc = "backoff" =>
                /\ Cardinality(RetryPositions) = attempt + 1
                /\ Len(events) - 1 \in RetryPositions
          /\ pc = "send" => Cardinality(RetryPositions) = attempt)
    /\ [][/\ pc' = "backoff" =>
                /\ pc = "send"
                /\ requestCount' = requestCount + 1
                /\ Len(events') = Len(events) + 2
                /\ SubSeq(events', 1, Len(events)) = events
                /\ events'[Len(events) + 1].type = "error"
                /\ events'[Len(events) + 1].retrying
                /\ events'[Len(events) + 1].attempt = attempt
                /\ events'[Len(events) + 2].type = "thinking"
          /\ pc = "backoff" =>
                /\ pc' = "send"
                /\ events' = events
                /\ requestCount' = requestCount
                /\ attempt' = attempt + 1
          /\ requestCount' # requestCount => pc = "send"]_vars

\* the fourth request of a send has gone out after three retry notices, numbered
\* 0, 1 and 2, each followed by its thinking event and its sleep
C28_Witness ==
    /\ pc = "stream"
    /\ attempt = 3
    /\ requestCount = 4
    /\ Len(events) = 6
    /\ RetryPositions = {1, 3, 5}
    /\ events[1].attempt = 0 /\ events[3].attempt = 1 /\ events[5].attempt = 2
    /\ events[2].type = "thinking" /\ events[4].type = "thinking"
    /\ events[6].type = "thinking"

\* C29: the network attempt counter starts from 0 for every model turn
\* regardless of failures in earlier turns of the same exchange; network
\* failures and retries never change the tool-retry counter, and tool faults
\* never reduce the number of network attempts available to later turns: a
\* retryable failure is retried up to maxRetries times whatever the tool-retry
\* counter holds.
C29_CountersIndependent ==
    [][/\ iteration' # iteration => attempt' = 0
       /\ (netFailures' # netFailures \/ pc = "backoff" \/ pc = "send")
             => toolCallRetryCount' = toolCallRetryCount
       /\ (pc = "send" /\ netFailures' = netFailures + 1)
             => /\ pc' = "backoff" <=> (parseError(failure').retryable /\ attempt < MaxRetries)
                /\ attempt' = attempt
       /\ (pc = "send" /\ pc' = "stream") => attempt' = attempt /\ attempt <= MaxRetries
       /\ (Len(turnLog') > Len(turnLog) /\ turnLog'[Len(turnLog')].failed)
             => toolCallRetryCount' = toolCallRetryCount]_vars

\* after a tool fault and a failed attempt in the first turn, the second turn
\* has used all four of its attempts
C29_Witness ==
    /\ iteration = 2
    /\ toolCallRetryCount = 1
    /\ pc = "stream"
    /\ attempt = MaxRetries
    /\ netFailures = MaxRetries + 1
    /\ requestCount = 1 + netFailures + 1

\* the turns read so far on which the validation found a parse error
ParseErrorTurns ==
    {n \in 1..Len(turnLog) : hasExecutor /\ TurnHasUnparsableNonEmpty(turnLog[n])}

\* the tool executions so far that returned without success
FailedExecutions ==
    UNION {{<<n, k>> : k \in {j \in 1..Len(turnLog[n].results) : ~turnLog[n].results[j]}} :
             n \in 1..Len(turnLog)}

\* this step is a tool execution that returned
ExecutionReturned ==
    /\ Len(turnLog') = Len(turnLog)
    /\ turnLog # <<>>
    /\ Len(turnLog'[Len(turnLog)].results) > Len(turnLog[Len(turnLog)].results)

-----------------------------------------------------------------------------
(* What a turn leaves behind: dispatch, content, the lists sent              *)

\* C31: when a tool call of a turn returns success = false, the remaining tool
\* calls of that turn are not executed: no tool_call event is emitted and the
\* executor is not invoked for any later call of that turn before the turn is
\* discarded.
C31_FailureStopsDispatch ==
    \A n \in 1..Len(turnLog) :
        LET t == turnLog[n] IN
        \A k \in 1..Len(t.results) :
            ~t.results[k] =>
                /\ k = Len(t.results)
                /\ t.invoked = k
                /\ n = Len(turnLog) =>
                      /\ pc \notin {"dispatch", "executing"}
                      /\ Cardinality({i \in 1..Len(events) : events[i].type = "tool_call"})
                            <= k

\* of the two tool calls of a turn the first has failed: the executor was
\* invoked once, and the next turn has begun
C31_Witness ==
    /\ Len(turnLog) = 1
    /\ Len(turnLog[1].calls) = 2
    /\ turnLog[1].results = <<FALSE>>
    /\ turnLog[1].invoked = 1
    /\ iteration = 2
    /\ pc = "send"

RECURSIVE Concat(_)
\* the texts of a list joined in order
Concat(texts) == IF texts = <<>> THEN <<>> ELSE Head(texts) \o Concat(Tail(texts))

\* the turn read in this step
NewTurn == turnLog'[Len(turnLog')]

\* C32: content events are emitted in the order the content deltas arrive on
\* the wire, and the content stored in each assistant message that streamChat
\* records in the ledger equals the concatenation, in order, of the content
\* deltas emitted during the model turn that produced it (null when that turn
\* had tool calls and no content).
C32_ContentInWireOrder ==
    [][Len(turnLog') > Len(turnLog) =>
          /\ NewTurn.emitted = NewTurn.wire
          /\ pc' = "dispatch" =>
                /\ currentMessages' = Append(currentMessages, currentMessages'[Len(currentMessages')])
                /\ lastApiMessages' = currentMessages'
                /\ currentMessages'[Len(currentMessages')].role = "assistant"
                /\ currentMessages'[Len(currentMessages')].tool_calls = NewTurn.calls
                /\ currentMessages'[Len(currentMessages')].content =
                      IF Concat(NewTurn.emitted) # <<>> THEN Concat(NewTurn.emitted)
                      ELSE NullContent
          /\ (~NewTurn.failed /\ (NewTurn.calls = <<>> \/ ~hasExecutor)) =>
                /\ pc' = "done"
                /\ IF Concat(NewTurn.emitted) # <<>>
                   THEN /\ Len(lastApiMessages') = Len(currentMessages) + 1
                        /\ SubSeq(lastApiMessages', 1, Len(currentMessages)) = currentMessages
                        /\ lastApiMessages'[Len(lastApiMessages')].role = "assistant"
                        /\ lastApiMessages'[Len(lastApiMessages')].tool_calls = <<>>
                        /\ lastApiMessages'[Len(lastApiMessages')].content
                              = Concat(NewTurn.emitted)
                   ELSE lastApiMessages' = currentMessages]_vars

\* a turn of two content deltas has ended the exchange with the assistant message
\* "hi", after a turn with tool calls and no content whose message holds null
C32_Witness ==
    /\ pc = "done"
    /\ Len(turnLog) = 2
    /\ turnLog[1].wire = <<>> /\ turnLog[1].calls # <<>>
    /\ turnLog[2].emitted = <<<<"h">>, <<"i">>>>
    /\ lastApiMessages[Len(lastApiMessages)].content = <<"h", "i">>
    /\ \E i \in 1..Len(lastApiMessages) :
          lastApiMessages[i].tool_calls # <<>> /\ lastApiMessages[i].content = NullContent

\* `list` begins with apiMessages as built at the start and has no other system message
KeepsInitialPrefix(list) ==
    /\ Len(list) >= Len(initialMessages)
    /\ SubSeq(list, 1, Len(initialMessages)) = initialMessages
    /\ \A i \in 2..Len(list) : list[i].role # "system"

\* C33: every message list sent by streamChat begins with exactly one system
\* message followed by the caller's prior turns in their original order; this
\* initial prefix is never modified, reordered or shortened by any append,
\* tool result or discard during the exchange.
C33_InitialPrefixKept ==
    pc # "off" =>
        /\ initialMessages[1].role = "system"
        /\ \E messages \in InitialHistories : initialMessages = BuildApiMessages(messages)
        /\ KeepsInitialPrefix(currentMessages)
        /\ requestCount > 0 => KeepsInitialPrefix(lastSent)

\* a request went out after a turn whose tool result was appended and a turn
\* that was discarded
C33_Witness ==
    /\ pc = "stream"
    /\ Len(turnLog) = 2
    /\ turnLog[1].results = <<TRUE>>
    /\ turnLog[2].results = <<FALSE>>
    /\ discarded
    /\ Len(lastSent) > Len(initialMessages)
    /\ Len(initialMessages) > 1

-----------------------------------------------------------------------------
(* The SSE decoder of the fetch-based streamChat: reader.read() delivers    *)
(* the response text piece by piece, the text is cut into lines at "\n",    *)
(* and each line that begins with "data: " is decoded.                      *)

\* 'data: '
DataPrefix == <<"d", "a", "t", "a", ":", " ">>

\* '[DONE]'
DoneMarker == <<"[", "D", "O", "N", "E", "]">>

\* {"choices":[{"delta":{"content":"
DeltaOpen == <<"{", "\"", "c", "h", "o", "i", "c", "e", "s", "\"", ":", "[", "{", "\"", "d", "e", "l", "t", "a", "\"", ":", "{", "\"", "c", "o", "n", "t", "e", "n", "t", "\"", ":", "\"">>

\* "}}]}
DeltaClose == <<"\"", "}", "}", "]", "}">>

\* the payload of a chunk whose delta holds `content`
DeltaPayload(content) == DeltaOpen \o content \o DeltaClose

\* a payload cut off in the middle
BrokenPayload == <<"{", "\"", "c", "h", "o", "i", "c", "e", "s", "\"", ":">>

\* a chunk without choices
EmptyPayload == <<"{", "\"", "c", "h", "o", "i", "c", "e", "s", "\"", ":", "[", "]", "}">>

\* a comment line of the event stream
CommentLine == <<":", " ", "p", "i", "n", "g">>

\* the lines a backend sends, by what they are
ContentLine(content) == [kind |-> "content", content |-> content]
MalformedLine == [kind |-> "malformed", content |-> <<>>]
NoContentLine == [kind |-> "nocontent", content |-> <<>>]
DoneLine == [kind |-> "done", content |-> <<>>]
OtherLine == [kind |-> "other", content |-> <<>>]
BlankLine == [kind |-> "blank", content |-> <<>>]

\* the text of a line on the wire, without its "\n"
LineText(line) ==
    CASE line.kind = "content" -> DataPrefix \o DeltaPayload(line.content)
      [] line.kind = "malformed" -> DataPrefix \o BrokenPayload
      [] line.kind = "nocontent" -> DataPrefix \o EmptyPayload
      [] line.kind = "done" -> DataPrefix \o DoneMarker
      [] line.kind = "other" -> CommentLine
      [] OTHER -> <<>>

RECURSIVE WireText(_, _)
\* the lines joined by "\n"; the last one ends with "\n" when `terminated`
WireText(lines, terminated) ==
    IF lines = <<>> THEN <<>>
    ELSE IF Len(lines) = 1
         THEN LineText(lines[1]) \o (IF terminated THEN <<"\n">> ELSE <<>>)
    ELSE LineText(lines[1]) \o <<"\n">> \o WireText(Tail(lines), terminated)

\* the responses a backend may send
SseResponses ==
    { [lines |-> <<ContentLine(<<"h">>), BlankLine, MalformedLine, BlankLine,
                   ContentLine(<<"i">>), BlankLine, DoneLine, BlankLine>>,
       terminated |-> TRUE],
      [lines |-> <<ContentLine(<<"h">>), MalformedLine, ContentLine(<<"i">>), DoneLine,
                   ContentLine(<<"j">>)>>,
       terminated |-> TRUE],
      [lines |-> <<MalformedLine, ContentLine(<<"i">>)>>, terminated |-> TRUE],
      [lines |-> <<ContentLine(<<"h">>), ContentLine(<<"i">>)>>, terminated |-> FALSE],
      [lines |-> <<OtherLine, NoContentLine, ContentLine(<<"h">>), DoneLine,
                   MalformedLine, ContentLine(<<"i">>)>>,
       terminated |-> TRUE] }

\* how many characters one reader.read() may deliver
ReadSizes == {4, 9, 50}

RECURSIVE SplitLines(_)
\* buffer.split('\n')
SplitLines(text) ==
    IF \E p \in 1..Len(text) : text[p] = "\n"
    THEN LET p == CHOOSE q \in 1..Len(text) :
                      text[q] = "\n" /\ \A r \in 1..(q - 1) : text[r] # "\n"
         IN <<SubSeq(text, 1, p - 1)>> \o SplitLines(SubSeq(text, p + 1, Len(text)))
    ELSE <<text>>

\* line.startsWith(prefix)
StartsWith(line, prefix) ==
    Len(line) >= Len(prefix) /\ SubSeq(line, 1, Len(prefix)) = prefix

\* line.slice(6)
Slice6(line) == SubSeq(line, 7, Len(line))

\* json.choices?.[0]?.delta?.content of a payload that parsed: the text of the
\* content, or <<>> when the chain ends in undefined
DeltaContent(data) ==
    IF /\ StartsWith(data, DeltaOpen)
       /\ Len(data) >= Len(DeltaOpen) + Len(DeltaClose)
       /\ SubSeq(data, Len(data) - Len(DeltaClose) + 1, Len(data)) = DeltaClose
    THEN SubSeq(data, Len(DeltaOpen) + 1, Len(data) - Len(DeltaClose))
    ELSE <<>>

\* the decoder before the first read
SseStart(response) ==
    [pc |-> "reading",
     wire |-> WireText(response.lines, response.terminated),
     buffer |-> <<>>,
     fullResponse |-> <<>>,
     yielded |-> <<>>,
     saved |-> <<>>,
     lines |-> response.lines,
     terminated |-> response.terminated]

\* a body of `for (const line of lines)` whose catch ends the decoding
DecodeLineStopsOnError(st, line) ==
    IF st.pc = "returned" THEN st
    ELSE IF StartsWith(line, DataPrefix)
         THEN LET data == Slice6(line) IN
              IF data = DoneMarker
              THEN [st EXCEPT !.pc = "returned", !.saved = <<st.fullResponse>>]
              ELSE IF ~JsonParses(data)
                   THEN [st EXCEPT !.pc = "returned"]
              ELSE IF DeltaContent(data) # <<>>
                   THEN [st EXCEPT !.fullResponse = @ \o DeltaContent(data),
                                   !.yielded = Append(@, DeltaContent(data))]
              ELSE st
    ELSE st

\* the body of `for (const line of lines)`; after the `return` of the [DONE]
\* branch no further line is looked at
DecodeLine(st, line) ==
    IF st.pc = "returned" THEN st
    ELSE IF StartsWith(line, DataPrefix)
         THEN LET data == Slice6(line) IN
              IF data = DoneMarker
              THEN [st EXCEPT !.pc = "returned", !.saved = <<st.fullResponse>>]
              ELSE IF JsonParses(data) /\ DeltaContent(data) # <<>>
                   THEN [st EXCEPT !.fullResponse = @ \o DeltaContent(data),
                                   !.yielded = Append(@, DeltaContent(data))]
              ELSE st
    ELSE st

RECURSIVE DecodeLines(_, _)
\* for (const line of lines)
DecodeLines(st, lines) ==
    IF lines = <<>> THEN st ELSE DecodeLines(DecodeLine(st, Head(lines)), Tail(lines))

InitSse ==
    /\ ChatOff
    /\ AggIdle
    /\ PanelOff
    /\ xch = <<>>
    /\ wireRequest = <<>>
    /\ ScriptOff
    /\ wait = <<>>
    /\ sends = <<>>
    /\ \E response \in SseResponses : sse = SseStart(response)

\* one pass of `while (true)`: reader.read() delivers the next `size` characters,
\* which are added to the buffer; the complete lines are decoded and the rest kept
SseRead(size) ==
    /\ sse.pc = "reading"
    /\ sse.wire # <<>>
    /\ LET n == IF size < Len(sse.wire) THEN size ELSE Len(sse.wire)
           text == sse.buffer \o SubSeq(sse.wire, 1, n)
           pieces == SplitLines(text)
           received == [sse EXCEPT !.wire = SubSeq(sse.wire, n + 1, Len(sse.wire)),
                                   !.buffer = pieces[Len(pieces)]]
       IN sse' = DecodeLines(received, SubSeq(pieces, 1, Len(pieces) - 1))
    /\ UNCHANGED <<chatVars, aggVars, panelVars, xch, wireRequest, lastApiMessages,
                   scriptVars, wait, sends>>

\* reader.read() reports done: the loop is left and a non-empty reply is saved
SseEnd ==
    /\ sse.pc = "reading"
    /\ sse.wire = <<>>
    /\ sse' = [sse EXCEPT !.pc = "returned",
                          !.saved = IF sse.fullResponse # <<>>
                                    THEN <<sse.fullResponse>> ELSE <<>>]
    /\ UNCHANGED <<chatVars, aggVars, panelVars, xch, wireRequest, lastApiMessages,
                   scriptVars, wait, sends>>

NextSse ==
    \/ \E size \in ReadSizes : SseRead(size)
    \/ SseEnd

SpecSse == InitSse /\ [][NextSse]_vars

\* the index of the first [DONE] line of `lines`, or Len(lines) + 1
FirstDone(lines) ==
    IF \E p \in 1..Len(lines) : lines[p].kind = "done"
    THEN CHOOSE p \in 1..Len(lines) :
            lines[p].kind = "done" /\ \A q \in 1..(p - 1) : lines[q].kind # "done"
    ELSE Len(lines) + 1

\* the lines of a response that end with "\n"
CompleteLines(lines, terminated) ==
    IF terminated THEN lines ELSE SubSeq(lines, 1, Len(lines) - 1)

\* the contents of the well-formed data lines before the first [DONE] line
ContentBeforeDone(lines) ==
    LET IsContent(line) == line.kind = "content"
        kept == SelectSeq(SubSeq(lines, 1, FirstDone(lines) - 1), IsContent)
    IN [i \in 1..Len(kept) |-> kept[i].content]

\* the complete lines whose text has been read so far
LinesRead ==
    LET complete == CompleteLines(sse.lines, sse.terminated) IN
    CHOOSE n \in 0..Len(complete) :
        /\ Len(WireText(SubSeq(complete, 1, n), TRUE)) <= Len(WireText(sse.lines, sse.terminated)) - Len(sse.wire)
        /\ \A m \in (n + 1)..Len(complete) :
              Len(WireText(SubSeq(complete, 1, m), TRUE)) > Len(WireText(sse.lines, sse.terminated)) - Len(sse.wire)

\* C34: in the SSE decoder, a data line whose payload is not valid JSON yields
\* nothing and does not end decoding: every well-formed data line after it is
\* still decoded and its content yielded; and once the `data: [DONE]` line is
\* read, no further content is yielded even if more lines follow.
C34_MalformedSkippedDoneEnds ==
    sse.yielded = ContentBeforeDone(SubSeq(CompleteLines(sse.lines, sse.terminated),
                                           1, LinesRead))

\* the last read delivered the [DONE] line and the content line after it: the
\* content after the malformed line was yielded and the content after [DONE] was not
C34_Witness ==
    /\ sse.pc = "returned"
    /\ sse.wire = <<>>
    /\ Len(sse.lines) = 5
    /\ sse.lines[2].kind = "malformed"
    /\ sse.lines[4].kind = "done"
    /\ sse.lines[5].kind = "content"
    /\ sse.yielded = << <<"h">>, <<"i">> >>

-----------------------------------------------------------------------------
(* Tool calls and their results in the lists sent                           *)

\* in `list` the assistant message at position i is followed by one tool message
\* for each of its tool calls, in their order, and by no further tool message
Answered(list, i) ==
    LET calls == list[i].tool_calls IN
    /\ Len(list) >= i + Len(calls)
    /\ \A c \in 1..Len(calls) :
          /\ list[i + c].role = "tool"
          /\ list[i + c].tool_call_id = calls[c].id
    /\ Len(list) > i + Len(calls) => list[i + Len(calls) + 1].role # "tool"

\* C35 as stated: in every message list that streamChat sends to the model,
\* each assistant message carrying tool_calls is immediately followed by
\* exactly one tool-role message per tool call, in the order of its
\* tool_calls; no request ever contains an assistant tool call that has no
\* tool result.
C35_ToolCallsAnswered ==
    \A i \in 1..Len(lastSent) :
        (lastSent[i].role = "assistant" /\ lastSent[i].tool_calls # <<>>)
            => Answered(lastSent, i)

-----------------------------------------------------------------------------
(* Termination of the exchange                                              *)

\* every await of the exchange (the request, the next chunk, the executor, the
\* backoff sleep) comes back in the end
SpecTransportFair == SpecTransport /\ WF_vars(NextTransport)

\* the codes of ERROR_MESSAGES
ApiErrorCodes == {"TIMEOUT", "NETWORK_ERROR", "AUTH_ERROR", "RATE_LIMIT", "QUOTA_EXCEEDED",
                  "MODEL_NOT_FOUND", "INVALID_REQUEST", "SERVER_ERROR",
                  "TOOL_PARSE_ERROR", "TOOL_EXECUTION_ERROR", "UNKNOWN"}

-----------------------------------------------------------------------------
(* A stream that breaks                                                     *)

\* C37: when reading the response stream fails part-way through a turn,
\* nothing of that turn is recorded or acted on: the partially received
\* content and partially aggregated tool calls are not added to the ledger
\* (neither the request list nor getLastApiMessages()), and no tool call of
\* that turn is dispatched.
C37_BrokenTurnLeavesNothing ==
    /\ [][(Len(turnLog') > Len(turnLog) /\ NewTurn.failed) =>
             /\ currentMessages' = currentMessages
             /\ lastApiMessages' = lastApiMessages
             /\ toolCalls' = <<>>
             /\ pc' = "failed"]_vars
    /\ [](StreamBroke =>
             /\ pc = "failed"
             /\ currentMessages = lastSent
             /\ turnLog[Len(turnLog)].invoked = 0
             /\ turnLog[Len(turnLog)].results = <<>>
             /\ \A i \in 1..Len(events) : events[i].type \notin {"tool_call", "tool_result"})

\* a stream broke after content and a tool-call fragment of the turn had arrived
C37_Witness ==
    /\ StreamBroke
    /\ turnLog[Len(turnLog)].content # <<>>
    /\ turnLog[Len(turnLog)].partial # <<>>
    /\ hasExecutor
    /\ Len(turnLog) = 2

-----------------------------------------------------------------------------
(* Content of turns that are discarded                                      *)

\* `list` holds an assistant message with the content emitted in turn `t`
TurnInLedger(list, t) ==
    \E i \in 1..Len(list) :
        /\ list[i].role = "assistant"
        /\ list[i].content = Concat(t.emitted)

\* C38 as stated: in an exchange that ends with `done`, every content delta
\* emitted to the consumer belongs to a model turn whose assistant message is
\* part of the final ledger; no content is shown to the consumer from a turn
\* that was afterwards discarded.
C38_NoContentFromDiscardedTurn ==
    pc = "done" =>
        \A n \in 1..Len(turnLog) :
            turnLog[n].emitted # <<>> => TurnInLedger(lastApiMessages, turnLog[n])

-----------------------------------------------------------------------------
(* sendMessage of the side panel, await by await: each call that passed the *)
(* guard has its own position, and the panel consumes the events of its     *)
(* streamChat one at a time.                                                *)

\* the most calls of sendMessage that pass the guard
MaxSends == 2

\* the events one streamChat hands to the for-await loop, by type; "throw" is
\* the error that leaves the generator
PanelEventStreams ==
    { <<"content", "content", "done">>,
      <<"tool_call", "thinking", "tool_result", "content", "done">>,
      <<"thinking", "throw">> }

SendCall(stage, text, toCome, at) ==
    [pc |-> stage, text |-> text, rest |-> toCome, at |-> at]

InitSend ==
    /\ ChatOff
    /\ AggIdle
    /\ PanelOff
    /\ xch = <<>>
    /\ wireRequest = <<>>
    /\ ScriptOff
    /\ wait = <<>>
    /\ sse = <<>>
    /\ sends = <<>>

\* sendMessage up to `await getActiveProvider()`: the guard on the text, isLoading
\* and isEditing
SendGuard(text) ==
    /\ Len(sends) < MaxSends
    /\ text # <<>>
    /\ ~isLoading
    /\ editingMessageIndex = -1
    /\ sends' = Append(sends, SendCall("preparing", text, <<>>, 0))
    /\ UNCHANGED <<chatVars, aggVars, panelVars, xch, wireRequest, lastApiMessages,
                   scriptVars, wait, sse>>

\* sendMessage from there to the call of streamChat: the session is created if
\* there is none, the user message and the empty assistant message are pushed
\* and isLoading is set
SendStart(i, stream) ==
    /\ sends[i].pc = "preparing"
    /\ currentSession' = IF currentSession.exists THEN currentSession ELSE NewSession
    /\ uiMessages' = uiMessages \o <<ChatMessage("user", sends[i].text, <<>>),
                                     ChatMessage("assistant", <<>>, <<>>)>>
    /\ isLoading' = TRUE
    /\ sends' = [sends EXCEPT ![i] = SendCall("streaming", sends[i].text, stream,
                                              Len(uiMessages) + 2)]
    /\ UNCHANGED <<panelPc, editingMessageIndex, editLedger, editK>>
    /\ UNCHANGED <<chatVars, aggVars, xch, wireRequest, lastApiMessages, scriptVars,
                   wait, sse>>

\* one pass of `for await (const event of streamChat(...))`; after done the loop
\* ends, and after a throw the catch block runs, both followed by finally
SendEvent(i) ==
    /\ sends[i].pc = "streaming"
    /\ LET event == Head(sends[i].rest) IN
       /\ sends' = [sends EXCEPT ![i].rest = Tail(@),
                                 ![i].pc = IF event \in {"done", "throw"}
                                           THEN "ended" ELSE @]
       /\ isLoading' = CASE event = "content" -> FALSE
                         [] event = "tool_call" -> TRUE
                         [] event \in {"done", "throw"} -> FALSE
                         [] OTHER -> isLoading
       /\ uiMessages' =
             CASE event = "content" ->
                     [uiMessages EXCEPT ![sends[i].at].content = @ \o <<"h">>]
               [] event = "throw" ->
                     Append(uiMessages, ChatMessage("assistant", <<"!">>, <<>>))
               [] OTHER -> uiMessages
    /\ UNCHANGED <<panelPc, currentSession, editingMessageIndex, editLedger, editK>>
    /\ UNCHANGED <<chatVars, aggVars, xch, wireRequest, lastApiMessages, scriptVars,
                   wait, sse>>

NextSend ==
    \/ \E text \in {<<"u">>} : SendGuard(text)
    \/ \E i \in 1..Len(sends), stream \in PanelEventStreams : SendStart(i, stream)
    \/ \E i \in 1..Len(sends) : SendEvent(i)

SpecSend == InitSend /\ [][NextSend]_vars

\* the calls of sendMessage whose streamChat has not finished
InFlightSends == {i \in 1..Len(sends) : sends[i].pc = "streaming"}

\* C39 as stated: in the side panel at most one exchange is in flight at any
\* time: while a streamChat started by sendMessage has not yet finished
\* (including while its content is streaming), a further sendMessage does not
\* start a second exchange.
C39_OneExchangeInFlight == Cardinality(InFlightSends) <= 1

====
